---- MODULE Spec2Model ----
(***************************************************************************)
(* Event ingestion and aggregation layer of the warmup dashboard.          *)
(*                                                                         *)
(*   lib/db (src/unnamed/part_005)      addEvent, addPostEvent,            *)
(*                                      getRecentEvents, ...               *)
(*   src/app/api/log/route.ts           POST /api/log                      *)
(*   src/app/api/posts/log/route.ts     POST /api/posts/log                *)
(*   src/unnamed/part_000               POST /api/clear                    *)
(*   src/unnamed/part_002 (160-189)     POST /api/posts/clear              *)
(*   src/app/layout.tsx (20-53)         GET /api/stats                     *)
(*   src/unnamed/part_001               GET /api/posts                     *)
(*   src/unnamed/part_004 (571-584)     the Clear Data button of the page  *)
(*                                                                         *)
(* The Redis keyspace is one variable, redis, a function from keys to      *)
(* values.  A key is a tuple: <<"warmup:events">> for a list,              *)
(* <<"warmup:stats:", date, id>> for a counter record.  Every await of a   *)
(* Redis command is one atomic step of the handler that issues it; the     *)
(* handlers of concurrent requests interleave between these steps.         *)
(***************************************************************************)
EXTENDS Integers, Sequences, FiniteSets, TLC

VARIABLES
  redis,      \* the key-value backend: key -> list of JSON strings | JSON record
  expireAt,   \* the key-value backend: key -> the clock value at which the key expires
  ui,         \* the dashboard page: what its Clear Data button is doing
  page,       \* the dashboard page: its error banner and the snapshots on screen
  req,        \* the requests being served: slot -> handler position and locals
  clock,      \* the server clock, in half days (Date.now(), new Date())
  nSubmits,   \* number of POST .../log requests received so far
  nClears,    \* number of POST .../clear requests received so far
  nErrors,    \* number of Redis commands that have failed so far
  pushed,     \* history: per list key, every event appended by a submit of the behaviour, newest first
  base,       \* history: per list key, how many older events the list held initially
  live,       \* history: per list key, how many events were appended since the key last was deleted (or created)
  untrimmed,  \* history: per list key, the LPUSHes executed since the last LTRIM or DEL of the key
  aborted,    \* history: per list key, the appends that pushed and then failed before their LTRIM
  counted     \* history: per counter key, the actions of the submits that wrote the record and returned success, in order

vars == <<redis, expireAt, ui, page, req, clock, nSubmits, nClears, nErrors, pushed, base, live, untrimmed, aborted, counted>>
hist == <<pushed, base, live, untrimmed, aborted, counted>>

---------------------------------------------------------------------------
(* Bounds of the model *)

MaxReq == 2        \* requests served at the same time
MaxSubmits == 2    \* POST .../log requests in one behaviour with concurrent requests
SeqSubmits == 4    \* POST .../log requests in one behaviour with one request at a time
OpsSubmits == 3    \* POST .../log requests in one behaviour with requests of every route
FieldSubmits == 3  \* POST .../log requests in one behaviour with events that differ in one field
MaxClears == 1     \* POST .../clear requests in one behaviour
MaxErrors == 1     \* Redis commands that fail in one behaviour
MaxClock == 2      \* last value of the clock (it starts at 1; day = clock \div 2)

Req == 1..MaxReq

---------------------------------------------------------------------------
(* Values *)

\* JavaScript undefined (a field absent from the JSON body) for string fields
Undefined == "undefined"
\* null / undefined for number fields
Null == -1
\* null returned by redis.get for a missing key; also "no event"
Nil == [nil |-> TRUE]

\* useState<string | null>(null): no error
NoError == "null"

\* JavaScript truthiness of an optional string: !x holds for undefined and ""
Truthy(x) == x # Undefined /\ x # ""

Min(a, b) == IF a <= b THEN a ELSE b

\* new Date().toISOString().split('T')[0]: the calendar day of the clock
\* (two clock ticks to the day)
TodayOf(c) == c \div 2

\* Date.now()
DateNow == clock

\* a receivedAt that a producer puts in the body it sends
ClientReceivedAt == 99

---------------------------------------------------------------------------
(* lib/db constants *)

EVENTS_KEY == <<"warmup:events">>
STATS_PREFIX == "warmup:stats:"
POST_EVENTS_KEY == <<"posts:events">>
POST_STATS_PREFIX == "posts:stats:"
MAX_EVENTS == 500
MAX_POST_EVENTS == 200

ListKeys == {EVENTS_KEY, POST_EVENTS_KEY}

\* `${STATS_PREFIX}${today}:${event.profileId}`
\* a key that names the first day whatever the date
StatsKey_FirstDay(prefix, today, id) == <<prefix, 0, id>>

StatsKey(prefix, today, id) == <<prefix, today, id>>

---------------------------------------------------------------------------
(* JSON: JSON.stringify drops the fields whose value is undefined;         *)
(* reading the value back gives undefined for the fields that are absent.  *)

\* the string-valued fields of the objects of lib/db (the others hold numbers)
StringFields == {"profileId", "personaId", "username", "handle", "action"}

IsDefined(obj, f) == IF f \in StringFields THEN obj[f] # Undefined ELSE obj[f] # Null

JSONstringify(obj) == [f \in {g \in DOMAIN obj : IsDefined(obj, g)} |-> obj[f]]

JSONparse(json, fields) ==
  [f \in fields |-> IF f \in DOMAIN json THEN json[f]
                    ELSE IF f \in StringFields THEN Undefined ELSE Null]

ActivityEventFields == {"timestamp", "profileId", "username", "action", "receivedAt"}
PostEventFields == {"timestamp", "personaId", "handle", "action", "receivedAt"}
ProfileStatsFields ==
  {"likes", "bookmarks", "searches", "explores", "videos", "sessions", "lastActivity", "username"}
PostStatsFields == {"scheduled", "posted", "failed", "lastActivity", "handle"}

---------------------------------------------------------------------------
(* Redis commands, as functions of the keyspace *)

ListAt(store, key) == IF key \in DOMAIN store THEN store[key] ELSE <<>>

\* a push that drops a value equal to the head of the list (deduplication)
LPUSH_Dedup(store, key, value) ==
  IF ListAt(store, key) # <<>> /\ Head(ListAt(store, key)) = value
    THEN store
    ELSE [k \in DOMAIN store \cup {key} |->
            IF k = key THEN <<value>> \o ListAt(store, key) ELSE store[k]]

\* a push that inserts at the tail (RPUSH)
LPUSH_AtTail(store, key, value) ==
  [k \in DOMAIN store \cup {key} |-> IF k = key THEN ListAt(store, key) \o <<value>> ELSE store[k]]

\* LPUSH key value: insert at the head, creating the list if needed
LPUSH(store, key, value) ==
  [k \in DOMAIN store \cup {key} |-> IF k = key THEN <<value>> \o ListAt(store, key) ELSE store[k]]

\* the elements start..stop (0-based, inclusive, start >= 0, stop >= -1 + start)
Range(list, start, stop) == SubSeq(list, start + 1, Min(stop + 1, Len(list)))

\* a truncate that keeps the last stop - start + 1 elements, removing from the head
LTRIM_FromHead(store, key, start, stop) ==
  LET list == ListAt(store, key)
      n == Min(stop - start + 1, Len(list))
      kept == SubSeq(list, Len(list) - n + 1, Len(list))
  IN  IF kept = <<>>
        THEN [k \in DOMAIN store \ {key} |-> store[k]]
        ELSE [k \in DOMAIN store \cup {key} |-> IF k = key THEN kept ELSE store[k]]

\* LTRIM key start stop: keep only start..stop; an emptied list is removed
LTRIM(store, key, start, stop) ==
  LET kept == Range(ListAt(store, key), start, stop)
  IN  IF kept = <<>>
        THEN [k \in DOMAIN store \ {key} |-> store[k]]
        ELSE [k \in DOMAIN store \cup {key} |-> IF k = key THEN kept ELSE store[k]]

\* LRANGE key start stop
LRANGE(store, key, start, stop) == Range(ListAt(store, key), start, stop)

\* GET key: null for a missing key
GET(store, key) == IF key \in DOMAIN store THEN store[key] ELSE Nil

\* SET key value (the client stores an object as its JSON)
SET(store, key, value) ==
  [k \in DOMAIN store \cup {key} |-> IF k = key THEN JSONstringify(value) ELSE store[k]]

\* DEL key [key ...]
DEL(store, keys) == [k \in DOMAIN store \ keys |-> store[k]]

\* { ex: 86400 * 7 }: seven days, in half days
EX == 7 * 2

\* a write that keeps the deadline a key has (SET ... KEEPTTL)
EXPIRE_KeepsDeadline(deadlines, key, now, seconds) ==
  [k \in DOMAIN deadlines \cup {key} |->
     IF k \in DOMAIN deadlines THEN deadlines[k] ELSE now + seconds]

\* the deadlines after SET key value EX seconds at the time now
EXPIRE(deadlines, key, now, seconds) ==
  [k \in DOMAIN deadlines \cup {key} |-> IF k = key THEN now + seconds ELSE deadlines[k]]

\* the keys whose deadline has come at the time now: Redis removes them
Expired(deadlines, now) == {k \in DOMAIN deadlines : deadlines[k] <= now}

\* a pattern without the date: `${prefix}*`
KEYS_AnyDate(store, prefix, date) == {k \in DOMAIN store : Len(k) = 3 /\ k[1] = prefix}

\* KEYS `${prefix}${date}:*`
KEYS(store, prefix, date) ==
  {k \in DOMAIN store : Len(k) = 3 /\ k[1] = prefix /\ k[2] = date}

---------------------------------------------------------------------------
(* lib/db: the counter record of a profile (ProfileStats) *)

\* the record addEvent starts from when the key holds none
ZeroProfileStats ==
  [likes |-> 0, bookmarks |-> 0, searches |-> 0, explores |-> 0, videos |-> 0,
   sessions |-> 0, lastActivity |-> Null, username |-> Undefined]

\* a switch with a default case that counts a session
ActivitySwitch_DefaultCounts(stats, action) ==
  CASE action = "like"          -> [stats EXCEPT !.likes = @ + 1]
    [] action = "bookmark"      -> [stats EXCEPT !.bookmarks = @ + 1]
    [] action = "search"        -> [stats EXCEPT !.searches = @ + 1]
    [] action = "explore"       -> [stats EXCEPT !.explores = @ + 1]
    [] action = "video_watch"   -> [stats EXCEPT !.videos = @ + 1]
    [] OTHER                    -> [stats EXCEPT !.sessions = @ + 1]

\* a switch whose 'bookmark' case lacks its break and falls through to 'search'
ActivitySwitch_Fallthrough(stats, action) ==
  CASE action = "like"          -> [stats EXCEPT !.likes = @ + 1]
    [] action = "bookmark"      -> [stats EXCEPT !.bookmarks = @ + 1, !.searches = @ + 1]
    [] action = "search"        -> [stats EXCEPT !.searches = @ + 1]
    [] action = "explore"       -> [stats EXCEPT !.explores = @ + 1]
    [] action = "video_watch"   -> [stats EXCEPT !.videos = @ + 1]
    [] action = "session_start" -> [stats EXCEPT !.sessions = @ + 1]
    [] OTHER                    -> stats

\* addEvent's switch (event.action)
ActivitySwitch(stats, action) ==
  CASE action = "like"          -> [stats EXCEPT !.likes = @ + 1]
    [] action = "bookmark"      -> [stats EXCEPT !.bookmarks = @ + 1]
    [] action = "search"        -> [stats EXCEPT !.searches = @ + 1]
    [] action = "explore"       -> [stats EXCEPT !.explores = @ + 1]
    [] action = "video_watch"   -> [stats EXCEPT !.videos = @ + 1]
    [] action = "session_start" -> [stats EXCEPT !.sessions = @ + 1]
    [] OTHER                    -> stats

\* a record that takes the username of every event, absent or not
ProfileStatsAfter_NameOfLast(existing, event) ==
  LET stats0 == IF existing # Nil THEN JSONparse(existing, ProfileStatsFields)
                                  ELSE ZeroProfileStats
      stats1 == [stats0 EXCEPT !.lastActivity = event.timestamp]
      stats2 == [stats1 EXCEPT !.username = event.username]
  IN  ActivitySwitch(stats2, event.action)

\* a record whose lastActivity only moves forward
ProfileStatsAfter_Newest(existing, event) ==
  LET stats0 == IF existing # Nil THEN JSONparse(existing, ProfileStatsFields)
                                  ELSE ZeroProfileStats
      stats1 == IF event.timestamp > stats0.lastActivity
                  THEN [stats0 EXCEPT !.lastActivity = event.timestamp]
                  ELSE stats0
      stats2 == IF Truthy(event.username)
                  THEN [stats1 EXCEPT !.username = event.username]
                  ELSE stats1
  IN  ActivitySwitch(stats2, event.action)

\* the record addEvent writes, from the record it read (null if none) and the event
ProfileStatsAfter(existing, event) ==
  LET stats0 == IF existing # Nil THEN JSONparse(existing, ProfileStatsFields)
                                  ELSE ZeroProfileStats
      stats1 == [stats0 EXCEPT !.lastActivity = event.timestamp]
      stats2 == IF Truthy(event.username)
                  THEN [stats1 EXCEPT !.username = event.username]
                  ELSE stats1
  IN  ActivitySwitch(stats2, event.action)

(* lib/db: the counter record of a persona (PostStats) *)

ZeroPostStats ==
  [scheduled |-> 0, posted |-> 0, failed |-> 0, lastActivity |-> Null, handle |-> Undefined]

\* a decrement without the floor
DecrementScheduled_NoFloor(stats) == [stats EXCEPT !.scheduled = @ - 1]

\* if (stats.scheduled > 0) stats.scheduled--
DecrementScheduled(stats) ==
  IF stats.scheduled > 0 THEN [stats EXCEPT !.scheduled = @ - 1] ELSE stats

\* a switch that puts a failed post back among the scheduled ones
PostSwitch_Reschedules(stats, action) ==
  CASE action = "post_scheduled" -> [stats EXCEPT !.scheduled = @ + 1]
    [] action = "post_published" -> DecrementScheduled([stats EXCEPT !.posted = @ + 1])
    [] action = "post_failed"    -> [stats EXCEPT !.failed = @ + 1, !.scheduled = @ + 1]
    [] OTHER                     -> stats

\* addPostEvent's switch (event.action)
PostSwitch(stats, action) ==
  CASE action = "post_scheduled" -> [stats EXCEPT !.scheduled = @ + 1]
    [] action = "post_published" -> DecrementScheduled([stats EXCEPT !.posted = @ + 1])
    [] action = "post_failed"    -> DecrementScheduled([stats EXCEPT !.failed = @ + 1])
    [] OTHER                     -> stats

\* a record stamped with the arrival time of the event
PostStatsAfter_StampsArrival(existing, event) ==
  LET stats0 == IF existing # Nil THEN JSONparse(existing, PostStatsFields)
                                  ELSE ZeroPostStats
      stats1 == [stats0 EXCEPT !.lastActivity = event.receivedAt]
      stats2 == IF Truthy(event.handle)
                  THEN [stats1 EXCEPT !.handle = event.handle]
                  ELSE stats1
  IN  PostSwitch(stats2, event.action)

PostStatsAfter(existing, event) ==
  LET stats0 == IF existing # Nil THEN JSONparse(existing, PostStatsFields)
                                  ELSE ZeroPostStats
      stats1 == [stats0 EXCEPT !.lastActivity = event.timestamp]
      stats2 == IF Truthy(event.handle)
                  THEN [stats1 EXCEPT !.handle = event.handle]
                  ELSE stats1
  IN  PostSwitch(stats2, event.action)

(* lib/db: reads *)

\* the limit the routes read the logs with: getRecentEvents(50)
RECENT_LIMIT == 50

\* a read whose range end is the limit itself
getRecentEvents_OffByOne(limit) ==
  LET events == LRANGE(redis, EVENTS_KEY, 0, limit)
  IN  [i \in 1..Len(events) |-> JSONparse(events[i], ActivityEventFields)]

\* getRecentEvents(limit)
getRecentEvents(limit) ==
  LET events == LRANGE(redis, EVENTS_KEY, 0, limit - 1)
  IN  [i \in 1..Len(events) |-> JSONparse(events[i], ActivityEventFields)]

\* getRecentPostEvents(limit)
getRecentPostEvents(limit) ==
  LET events == LRANGE(redis, POST_EVENTS_KEY, 0, limit - 1)
  IN  [i \in 1..Len(events) |-> JSONparse(events[i], PostEventFields)]

---------------------------------------------------------------------------
(* The request bodies the producers send *)

ProfileIds == {"green", "blue"}
PersonaIds == {"green", "blue"}

CountedActions == {"like", "bookmark", "search", "explore", "video_watch", "session_start"}
OtherActions == {"session_end", "error", "scroll", "profile_visit"}
PostActions == {"post_scheduled", "post_published", "post_failed"}

ActivityEvents(ids, actions, names, timestamps) ==
  [timestamp : timestamps, profileId : ids, username : names, action : actions,
   receivedAt : {Null}]

PostEvents(ids, actions, names, timestamps) ==
  [timestamp : timestamps, personaId : ids, handle : names, action : actions,
   receivedAt : {Null}]

\* concurrent requests: few actions, every way of being rejected
ActivityEventInputs ==
  ActivityEvents({"green"}, {"like", "scroll"}, {Undefined}, {1})
    \cup ActivityEvents({Undefined, ""}, {"like"}, {Undefined}, {1})
    \cup ActivityEvents({"green"}, {Undefined, ""}, {Undefined}, {1})

PostEventInputs ==
  PostEvents({"blue"}, PostActions, {Undefined}, {1})
    \cup PostEvents({Undefined, ""}, {"post_failed"}, {Undefined}, {1})
    \cup PostEvents({"blue"}, {Undefined, "", "like"}, {Undefined}, {1})

\* one request at a time: every action
SeqActivityEventInputs ==
  ActivityEvents({"green"}, CountedActions \cup {"scroll"}, {Undefined}, {1})
    \cup ActivityEvents({"blue"}, {"like"}, {Undefined}, {1})

SeqPostEventInputs == PostEvents({"blue"}, PostActions, {Undefined}, {1})

---------------------------------------------------------------------------
(* The initial states.  Init: the store is empty.  InitFull: both logs are *)
(* full of events received on earlier days, and no counter record exists   *)
(* for the days of the model.                                              *)

OldEvent ==
  [timestamp |-> 2, profileId |-> "green", username |-> Undefined, action |-> "like",
   receivedAt |-> 0]
OldPostEvent ==
  [timestamp |-> 2, personaId |-> "blue", handle |-> Undefined, action |-> "post_published",
   receivedAt |-> 0]

OldEventOf(key) == IF key = EVENTS_KEY THEN OldEvent ELSE OldPostEvent

MaxOf(key) == IF key = EVENTS_KEY THEN MAX_EVENTS ELSE MAX_POST_EVENTS

\* const corsHeaders = {...} of the three routes that send them, and the
\* headers of a response that is given none
corsHeaders ==
  [Access_Control_Allow_Origin |-> "*",
   Access_Control_Allow_Methods |-> "POST, OPTIONS",
   Access_Control_Allow_Headers |-> "Content-Type"]

PostsLogCorsHeaders ==
  [Access_Control_Allow_Origin |-> "*",
   Access_Control_Allow_Methods |-> "POST, OPTIONS",
   Access_Control_Allow_Headers |-> "Content-Type"]

StatsCorsHeaders ==
  [Access_Control_Allow_Origin |-> "*",
   Access_Control_Allow_Methods |-> "GET, OPTIONS",
   Access_Control_Allow_Headers |-> "Content-Type"]

NoHeaders ==
  [Access_Control_Allow_Origin |-> Undefined,
   Access_Control_Allow_Methods |-> Undefined,
   Access_Control_Allow_Headers |-> Undefined]

\* a request slot that serves nothing
Idle ==
  [kind |-> "none", pc |-> "idle", event |-> Nil, today |-> Null, existing |-> Nil,
   keys |-> {}, status |-> 0,
   epc |-> "none", order |-> <<>>, next |-> 1, stats |-> <<>>, events |-> <<>>, body |-> Nil,
   headers |-> NoHeaders]

InitRest ==
  /\ expireAt = <<>>
  /\ ui = "idle"
  /\ page = [error |-> NoError, warmupData |-> Nil, postsData |-> Nil]
  /\ req = [r \in Req |-> Idle]
  /\ clock = 1
  /\ nSubmits = 0
  /\ nClears = 0
  /\ nErrors = 0
  /\ pushed = [key \in ListKeys |-> <<>>]
  /\ untrimmed = [key \in ListKeys |-> 0]
  /\ aborted = [key \in ListKeys |-> 0]
  /\ counted = <<>>

Init ==
  /\ redis = <<>>
  /\ base = [key \in ListKeys |-> 0]
  /\ live = [key \in ListKeys |-> 0]
  /\ InitRest

InitFull ==
  /\ redis = [key \in ListKeys |-> [i \in 1..MaxOf(key) |-> JSONstringify(OldEventOf(key))]]
  /\ base = [key \in ListKeys |-> MaxOf(key)]
  /\ live = [key \in ListKeys |-> MaxOf(key)]
  /\ InitRest

\* the events ever appended to the list, newest first, whether or not they
\* have been trimmed away or deleted since: how many, and the i-th of them
AppendedLen(key) == Len(pushed[key]) + base[key]
AppendedAt(key, i) == IF i <= Len(pushed[key]) THEN pushed[key][i] ELSE OldEventOf(key)

Counted(key) == IF key \in DOMAIN counted THEN counted[key] ELSE <<>>

\* a new request is served by the lowest slot that serves nothing
Free(r) == req[r].pc = "idle" /\ \A q \in Req : q < r => req[q].pc # "idle"

---------------------------------------------------------------------------
(* POST /api/log  (src/app/api/log/route.ts, addEvent) *)

\* a validation that looks at the profile id only
LogRejects_IdOnly(event) == ~Truthy(event.profileId)

\* if (!event.profileId || !event.action)
LogRejects(event) == ~Truthy(event.profileId) \/ ~Truthy(event.action)

\* an ingestion that keeps the receivedAt of the body if there is one
LogPOST_KeepsReceivedAt(r, inputs, max) ==
  /\ Free(r)
  /\ nSubmits < max
  /\ \E event \in inputs :
       req' = [req EXCEPT ![r] =
                 IF LogRejects(event)
                   THEN [Idle EXCEPT !.kind = "log", !.pc = "respond", !.event = event,
                                     !.status = 400, !.headers = corsHeaders]
                   ELSE [Idle EXCEPT !.kind = "log", !.pc = "lpush",
                                     !.event = IF event.receivedAt # Null THEN event
                                               ELSE [event EXCEPT !.receivedAt = DateNow]]]
  /\ nSubmits' = nSubmits + 1
  /\ UNCHANGED <<expireAt, ui, page, redis, clock, nClears, nErrors, hist>>

\* a handler that goes to the counter step without the append
LogPOST_CountFirst(r, inputs, max) ==
  /\ Free(r)
  /\ nSubmits < max
  /\ \E event \in inputs :
       req' = [req EXCEPT ![r] =
                 IF LogRejects(event)
                   THEN [Idle EXCEPT !.kind = "log", !.pc = "respond", !.event = event,
                                     !.status = 400, !.headers = corsHeaders]
                   ELSE [Idle EXCEPT !.kind = "log", !.pc = "today",
                                     !.event = [event EXCEPT !.receivedAt = DateNow]]]
  /\ nSubmits' = nSubmits + 1
  /\ UNCHANGED <<expireAt, ui, page, redis, clock, nClears, nErrors, hist>>

LogPOST(r, inputs, max) ==
  /\ Free(r)
  /\ nSubmits < max
  /\ \E event \in inputs :
       req' = [req EXCEPT ![r] =
                 IF LogRejects(event)
                   THEN [Idle EXCEPT !.kind = "log", !.pc = "respond", !.event = event,
                                     !.status = 400, !.headers = corsHeaders]
                   ELSE [Idle EXCEPT !.kind = "log", !.pc = "lpush",
                                     !.event = [event EXCEPT !.receivedAt = DateNow]]]
  /\ nSubmits' = nSubmits + 1
  /\ UNCHANGED <<expireAt, ui, page, redis, clock, nClears, nErrors, hist>>

\* await redis.lpush(EVENTS_KEY, JSON.stringify(event))
AddEventLpush(r) ==
  /\ req[r].kind = "log" /\ req[r].pc = "lpush"
  /\ redis' = LPUSH(redis, EVENTS_KEY, JSONstringify(req[r].event))
  /\ req' = [req EXCEPT ![r].pc = "ltrim"]
  /\ pushed' = [pushed EXCEPT ![EVENTS_KEY] = <<req[r].event>> \o @]
  /\ live' = [live EXCEPT ![EVENTS_KEY] = @ + 1]
  /\ untrimmed' = [untrimmed EXCEPT ![EVENTS_KEY] = @ + 1]
  /\ UNCHANGED <<expireAt, ui, page, clock, nSubmits, nClears, nErrors, base, aborted, counted>>

\* a truncate whose end index is off by one
AddEventLtrim_OffByOne(r) ==
  /\ req[r].kind = "log" /\ req[r].pc = "ltrim"
  /\ redis' = LTRIM(redis, EVENTS_KEY, 0, MAX_EVENTS)
  /\ req' = [req EXCEPT ![r].pc = "today"]
  /\ untrimmed' = [untrimmed EXCEPT ![EVENTS_KEY] = 0]
  /\ UNCHANGED <<expireAt, ui, page, clock, nSubmits, nClears, nErrors, pushed, base, live, aborted, counted>>

\* await redis.ltrim(EVENTS_KEY, 0, MAX_EVENTS - 1)
AddEventLtrim(r) ==
  /\ req[r].kind = "log" /\ req[r].pc = "ltrim"
  /\ redis' = LTRIM(redis, EVENTS_KEY, 0, MAX_EVENTS - 1)
  /\ req' = [req EXCEPT ![r].pc = "today"]
  /\ untrimmed' = [untrimmed EXCEPT ![EVENTS_KEY] = 0]
  /\ UNCHANGED <<expireAt, ui, page, clock, nSubmits, nClears, nErrors, pushed, base, live, aborted, counted>>

\* a counter step that takes the day of the timestamp of the event
AddEventToday_OfTimestamp(r) ==
  /\ req[r].kind = "log" /\ req[r].pc = "today"
  /\ req' = [req EXCEPT ![r].pc = "get", ![r].today = TodayOf(req[r].event.timestamp)]
  /\ UNCHANGED <<expireAt, ui, page, redis, clock, nSubmits, nClears, nErrors, hist>>

\* const today = new Date().toISOString().split('T')[0]
AddEventToday(r) ==
  /\ req[r].kind = "log" /\ req[r].pc = "today"
  /\ req' = [req EXCEPT ![r].pc = "get", ![r].today = TodayOf(clock)]
  /\ UNCHANGED <<expireAt, ui, page, redis, clock, nSubmits, nClears, nErrors, hist>>

\* const existing = await redis.get<ProfileStats>(statsKey)
AddEventGet(r) ==
  /\ req[r].kind = "log" /\ req[r].pc = "get"
  /\ req' = [req EXCEPT ![r].pc = "set",
                        ![r].existing =
                          GET(redis, StatsKey(STATS_PREFIX, req[r].today, req[r].event.profileId))]
  /\ UNCHANGED <<expireAt, ui, page, redis, clock, nSubmits, nClears, nErrors, hist>>

\* a write that leaves a record deleted since the read deleted
AddEventSet_NoRecreate(r) ==
  LET statsKey == StatsKey(STATS_PREFIX, req[r].today, req[r].event.profileId)
      gone == req[r].existing # Nil /\ statsKey \notin DOMAIN redis
  IN  /\ req[r].kind = "log" /\ req[r].pc = "set"
      /\ redis' = IF gone THEN redis
                  ELSE SET(redis, statsKey, ProfileStatsAfter(req[r].existing, req[r].event))
      /\ req' = [req EXCEPT ![r].pc = "respond", ![r].status = 200,
                            ![r].headers = corsHeaders]
      /\ expireAt' = IF gone THEN expireAt ELSE EXPIRE(expireAt, statsKey, clock, EX)
      /\ counted' = [k \in DOMAIN counted \cup {statsKey} |->
                       IF k = statsKey THEN Append(Counted(k), req[r].event.action)
                                       ELSE counted[k]]
      /\ UNCHANGED <<ui, page, clock, nSubmits, nClears, nErrors, pushed, base, live, untrimmed, aborted>>

\* a counter step that adds the event to the record stored now (an atomic
\* increment) instead of writing back the record it read
AddEventSet_Atomic(r) ==
  LET statsKey == StatsKey(STATS_PREFIX, req[r].today, req[r].event.profileId)
  IN  /\ req[r].kind = "log" /\ req[r].pc = "set"
      /\ redis' = SET(redis, statsKey, ProfileStatsAfter(GET(redis, statsKey), req[r].event))
      /\ req' = [req EXCEPT ![r].pc = "respond", ![r].status = 200,
                        ![r].headers = corsHeaders]
      /\ expireAt' = EXPIRE(expireAt, statsKey, clock, EX)
      /\ counted' = [k \in DOMAIN counted \cup {statsKey} |->
                       IF k = statsKey THEN Append(Counted(k), req[r].event.action)
                                       ELSE counted[k]]
      /\ UNCHANGED <<ui, page, clock, nSubmits, nClears, nErrors, pushed, base, live, untrimmed, aborted>>

\* await redis.set(statsKey, stats, { ex: 86400 * 7 }); the route answers success
AddEventSet(r) ==
  LET statsKey == StatsKey(STATS_PREFIX, req[r].today, req[r].event.profileId)
  IN  /\ req[r].kind = "log" /\ req[r].pc = "set"
      /\ redis' = SET(redis, statsKey, ProfileStatsAfter(req[r].existing, req[r].event))
      /\ req' = [req EXCEPT ![r].pc = "respond", ![r].status = 200,
                        ![r].headers = corsHeaders]
      /\ expireAt' = EXPIRE(expireAt, statsKey, clock, EX)
      /\ counted' = [k \in DOMAIN counted \cup {statsKey} |->
                       IF k = statsKey THEN Append(Counted(k), req[r].event.action)
                                       ELSE counted[k]]
      /\ UNCHANGED <<ui, page, clock, nSubmits, nClears, nErrors, pushed, base, live, untrimmed, aborted>>

---------------------------------------------------------------------------
(* POST /api/posts/log  (src/app/api/posts/log/route.ts, addPostEvent) *)

validActions == {"post_scheduled", "post_published", "post_failed"}

\* a validation without the check of the action against validActions
PostsLogRejects_NoIncludes(event) == ~Truthy(event.personaId) \/ ~Truthy(event.action)

\* if (!event.personaId || !event.action) ... if (!validActions.includes(event.action))
PostsLogRejects(event) ==
  \/ ~Truthy(event.personaId) \/ ~Truthy(event.action)
  \/ event.action \notin validActions

PostsLogPOST(r, inputs, max) ==
  /\ Free(r)
  /\ nSubmits < max
  /\ \E event \in inputs :
       req' = [req EXCEPT ![r] =
                 IF PostsLogRejects(event)
                   THEN [Idle EXCEPT !.kind = "posts_log", !.pc = "respond", !.event = event,
                                     !.status = 400, !.headers = PostsLogCorsHeaders]
                   ELSE [Idle EXCEPT !.kind = "posts_log", !.pc = "lpush",
                                     !.event = [event EXCEPT !.receivedAt = DateNow]]]
  /\ nSubmits' = nSubmits + 1
  /\ UNCHANGED <<expireAt, ui, page, redis, clock, nClears, nErrors, hist>>

\* await redis.lpush(POST_EVENTS_KEY, JSON.stringify(event))
AddPostEventLpush(r) ==
  /\ req[r].kind = "posts_log" /\ req[r].pc = "lpush"
  /\ redis' = LPUSH(redis, POST_EVENTS_KEY, JSONstringify(req[r].event))
  /\ req' = [req EXCEPT ![r].pc = "ltrim"]
  /\ pushed' = [pushed EXCEPT ![POST_EVENTS_KEY] = <<req[r].event>> \o @]
  /\ live' = [live EXCEPT ![POST_EVENTS_KEY] = @ + 1]
  /\ untrimmed' = [untrimmed EXCEPT ![POST_EVENTS_KEY] = @ + 1]
  /\ UNCHANGED <<expireAt, ui, page, clock, nSubmits, nClears, nErrors, base, aborted, counted>>

\* a truncate of the post log to the cap of the warmup log
AddPostEventLtrim_WrongCap(r) ==
  /\ req[r].kind = "posts_log" /\ req[r].pc = "ltrim"
  /\ redis' = LTRIM(redis, POST_EVENTS_KEY, 0, MAX_EVENTS - 1)
  /\ req' = [req EXCEPT ![r].pc = "today"]
  /\ untrimmed' = [untrimmed EXCEPT ![POST_EVENTS_KEY] = 0]
  /\ UNCHANGED <<expireAt, ui, page, clock, nSubmits, nClears, nErrors, pushed, base, live, aborted, counted>>

\* await redis.ltrim(POST_EVENTS_KEY, 0, MAX_POST_EVENTS - 1)
AddPostEventLtrim(r) ==
  /\ req[r].kind = "posts_log" /\ req[r].pc = "ltrim"
  /\ redis' = LTRIM(redis, POST_EVENTS_KEY, 0, MAX_POST_EVENTS - 1)
  /\ req' = [req EXCEPT ![r].pc = "today"]
  /\ untrimmed' = [untrimmed EXCEPT ![POST_EVENTS_KEY] = 0]
  /\ UNCHANGED <<expireAt, ui, page, clock, nSubmits, nClears, nErrors, pushed, base, live, aborted, counted>>

\* const today = new Date().toISOString().split('T')[0]
AddPostEventToday(r) ==
  /\ req[r].kind = "posts_log" /\ req[r].pc = "today"
  /\ req' = [req EXCEPT ![r].pc = "get", ![r].today = TodayOf(clock)]
  /\ UNCHANGED <<expireAt, ui, page, redis, clock, nSubmits, nClears, nErrors, hist>>

\* const existing = await redis.get<PostStats>(statsKey)
AddPostEventGet(r) ==
  /\ req[r].kind = "posts_log" /\ req[r].pc = "get"
  /\ req' = [req EXCEPT ![r].pc = "set",
                        ![r].existing =
                          GET(redis, StatsKey(POST_STATS_PREFIX, req[r].today, req[r].event.personaId))]
  /\ UNCHANGED <<expireAt, ui, page, redis, clock, nSubmits, nClears, nErrors, hist>>

\* await redis.set(statsKey, stats, { ex: 86400 * 7 }); the route answers success
AddPostEventSet(r) ==
  LET statsKey == StatsKey(POST_STATS_PREFIX, req[r].today, req[r].event.personaId)
  IN  /\ req[r].kind = "posts_log" /\ req[r].pc = "set"
      /\ redis' = SET(redis, statsKey, PostStatsAfter(req[r].existing, req[r].event))
      /\ req' = [req EXCEPT ![r].pc = "respond", ![r].status = 200,
                        ![r].headers = PostsLogCorsHeaders]
      /\ expireAt' = EXPIRE(expireAt, statsKey, clock, EX)
      /\ counted' = [k \in DOMAIN counted \cup {statsKey} |->
                       IF k = statsKey THEN Append(Counted(k), req[r].event.action)
                                       ELSE counted[k]]
      /\ UNCHANGED <<ui, page, clock, nSubmits, nClears, nErrors, pushed, base, live, untrimmed, aborted>>

---------------------------------------------------------------------------
(* POST /api/clear (src/unnamed/part_000) and POST /api/posts/clear        *)
(* (src/unnamed/part_002): the same handler on the keys of each stream.    *)

\* const today = new Date().toISOString().split('T')[0]
ClearStart(r, kind) ==
  /\ Free(r)
  /\ nClears < MaxClears
  /\ req' = [req EXCEPT ![r] = [Idle EXCEPT !.kind = kind, !.pc = "keys",
                                            !.today = TodayOf(clock)]]
  /\ nClears' = nClears + 1
  /\ UNCHANGED <<expireAt, page, redis, clock, nSubmits, nErrors, hist>>

\* a clear that goes on to the event log whatever the keys are
ClearKeysStep_SkipsStats(r, kind, prefix) ==
  /\ req[r].kind = kind /\ req[r].pc = "keys"
  /\ req' = [req EXCEPT ![r].keys = KEYS(redis, prefix, req[r].today), ![r].pc = "delevents"]
  /\ UNCHANGED <<expireAt, ui, page, redis, clock, nSubmits, nClears, nErrors, hist>>

\* const statsKeys = await redis.keys(statsPattern); if (statsKeys.length > 0) ...
ClearKeysStep(r, kind, prefix) ==
  /\ req[r].kind = kind /\ req[r].pc = "keys"
  /\ LET statsKeys == KEYS(redis, prefix, req[r].today)
     IN  req' = [req EXCEPT ![r].keys = statsKeys,
                            ![r].pc = IF Cardinality(statsKeys) > 0 THEN "delstats"
                                                                   ELSE "delevents"]
  /\ UNCHANGED <<expireAt, ui, page, redis, clock, nSubmits, nClears, nErrors, hist>>


\* await redis.del(...statsKeys)
ClearDelStatsStep(r, kind) ==
  /\ req[r].kind = kind /\ req[r].pc = "delstats"
  /\ redis' = DEL(redis, req[r].keys)
  /\ expireAt' = DEL(expireAt, req[r].keys)
  /\ req' = [req EXCEPT ![r].pc = "delevents"]
  /\ UNCHANGED <<ui, page, clock, nSubmits, nClears, nErrors, hist>>

\* a response that counts the event log among the keys
ClearDelEventsStep_CountsLog(r, kind, eventsKey) ==
  /\ req[r].kind = kind /\ req[r].pc = "delevents"
  /\ redis' = DEL(redis, {eventsKey})
  /\ req' = [req EXCEPT ![r].pc = "respond", ![r].status = 200,
                        ![r].body = [success |-> TRUE,
                                     cleared |-> [statsKeys |-> Cardinality(req[r].keys) + 1,
                                                  events |-> TRUE]]]
  /\ live' = [live EXCEPT ![eventsKey] = 0]
  /\ untrimmed' = [untrimmed EXCEPT ![eventsKey] = 0]
  /\ UNCHANGED <<expireAt, ui, page, clock, nSubmits, nClears, nErrors, pushed, base, aborted, counted>>

\* await redis.del('warmup:events'); the route answers success with
\* cleared: { statsKeys: statsKeys.length, events: true }
ClearDelEventsStep(r, kind, eventsKey) ==
  /\ req[r].kind = kind /\ req[r].pc = "delevents"
  /\ redis' = DEL(redis, {eventsKey})
  /\ req' = [req EXCEPT ![r].pc = "respond", ![r].status = 200,
                        ![r].body = [success |-> TRUE,
                                     cleared |-> [statsKeys |-> Cardinality(req[r].keys),
                                                  events |-> TRUE]]]
  /\ live' = [live EXCEPT ![eventsKey] = 0]
  /\ untrimmed' = [untrimmed EXCEPT ![eventsKey] = 0]
  /\ UNCHANGED <<expireAt, ui, page, clock, nSubmits, nClears, nErrors, pushed, base, aborted, counted>>

ClearPOST(r) == ClearStart(r, "clear") /\ UNCHANGED ui
ClearKeys(r) == ClearKeysStep(r, "clear", "warmup:stats:")
ClearDelStats(r) == ClearDelStatsStep(r, "clear")
ClearDelEvents(r) == ClearDelEventsStep(r, "clear", <<"warmup:events">>)

PostsClearPOST(r) == ClearStart(r, "posts_clear") /\ UNCHANGED ui
PostsClearKeys(r) == ClearKeysStep(r, "posts_clear", "posts:stats:")
PostsClearDelStats(r) == ClearDelStatsStep(r, "posts_clear")
PostsClearDelEvents(r) == ClearDelEventsStep(r, "posts_clear", <<"posts:events">>)

---------------------------------------------------------------------------
(* What every handler shares *)

RedisSteps == {"lpush", "ltrim", "get", "set", "keys", "delstats", "delevents", "lrange"}

\* the list a submit appends to
EventsKeyOf(kind) == IF kind = "log" THEN EVENTS_KEY ELSE POST_EVENTS_KEY

\* the body of the 500 response of a route
ErrorBody(kind) ==
  [error |-> CASE kind = "log" -> "Failed to log event"
               [] kind = "posts_log" -> "Failed to log post event"
               [] kind = "stats" -> "Failed to fetch stats"
               [] kind = "posts" -> "Failed to fetch posts data"
               [] OTHER -> "Failed to clear data"]

\* the headers that the responses of a route carry
HeadersOf(kind) ==
  CASE kind = "log" -> corsHeaders
    [] kind = "posts_log" -> PostsLogCorsHeaders
    [] kind = "stats" -> StatsCorsHeaders
    [] OTHER -> NoHeaders

\* a catch that answers with the bare 500 of the framework
BackendError_Bare(r) ==
  /\ req[r].pc \in RedisSteps \/ req[r].epc = "lrange"
  /\ nErrors < MaxErrors
  /\ nErrors' = nErrors + 1
  /\ req' = [req EXCEPT ![r].pc = "respond", ![r].status = 500, ![r].epc = "none",
                        ![r].body = ErrorBody(req[r].kind)]
  /\ aborted' = IF req[r].pc = "ltrim"
                  THEN [aborted EXCEPT ![EventsKeyOf(req[r].kind)] = @ + 1]
                  ELSE aborted
  /\ UNCHANGED <<expireAt, ui, page, redis, clock, nSubmits, nClears, pushed, base, live, untrimmed, counted>>

\* a handler that issues the failed command again instead of answering
BackendError_Retry(r) ==
  /\ req[r].pc \in RedisSteps
  /\ nErrors < MaxErrors
  /\ nErrors' = nErrors + 1
  /\ UNCHANGED <<expireAt, ui, page, redis, req, clock, nSubmits, nClears, hist>>

\* a catch that answers with what the handler has read so far
BackendError_Partial(r) ==
  /\ req[r].pc \in RedisSteps \/ req[r].epc = "lrange"
  /\ nErrors < MaxErrors
  /\ nErrors' = nErrors + 1
  /\ req' = [req EXCEPT ![r].pc = "respond", ![r].status = 500, ![r].epc = "none",
                        ![r].headers = HeadersOf(req[r].kind),
                        ![r].body = [error |-> ErrorBody(req[r].kind).error,
                                     profiles |-> req[r].stats]]
  /\ aborted' = IF req[r].pc = "ltrim"
                  THEN [aborted EXCEPT ![EventsKeyOf(req[r].kind)] = @ + 1]
                  ELSE aborted
  /\ UNCHANGED <<expireAt, ui, page, redis, clock, nSubmits, nClears, pushed, base, live, untrimmed, counted>>

\* The awaited Redis command throws (the backend cannot be reached): the
\* command has no effect, the handler's catch answers 500.
BackendError(r) ==
  /\ req[r].pc \in RedisSteps \/ req[r].epc = "lrange"
  /\ nErrors < MaxErrors
  /\ nErrors' = nErrors + 1
  /\ req' = [req EXCEPT ![r].pc = "respond", ![r].status = 500, ![r].epc = "none",
                        ![r].headers = HeadersOf(req[r].kind),
                        ![r].body = ErrorBody(req[r].kind)]
  /\ aborted' = IF req[r].pc = "ltrim"
                  THEN [aborted EXCEPT ![EventsKeyOf(req[r].kind)] = @ + 1]
                  ELSE aborted
  /\ UNCHANGED <<expireAt, ui, page, redis, clock, nSubmits, nClears, pushed, base, live, untrimmed, counted>>

\* the response is sent; the slot serves nothing again
Return(r) ==
  /\ req[r].pc = "respond"
  /\ req' = [req EXCEPT ![r] = Idle]
  /\ UNCHANGED <<expireAt, ui, page, redis, clock, nSubmits, nClears, nErrors, hist>>

\* the body {} of the answer to a preflight
EmptyObject == [size |-> 0]

\* OPTIONS /api/log: return NextResponse.json({}, { headers: corsHeaders })
LogOPTIONS(r) ==
  /\ Free(r)
  /\ req' = [req EXCEPT ![r] = [Idle EXCEPT !.kind = "log_options", !.pc = "respond",
                                            !.status = 200, !.body = EmptyObject,
                                            !.headers = corsHeaders]]
  /\ UNCHANGED <<expireAt, ui, page, redis, clock, nSubmits, nClears, nErrors, hist>>

\* OPTIONS /api/posts/log
PostsLogOPTIONS(r) ==
  /\ Free(r)
  /\ req' = [req EXCEPT ![r] = [Idle EXCEPT !.kind = "posts_log_options", !.pc = "respond",
                                            !.status = 200, !.body = EmptyObject,
                                            !.headers = PostsLogCorsHeaders]]
  /\ UNCHANGED <<expireAt, ui, page, redis, clock, nSubmits, nClears, nErrors, hist>>

\* time passes (half a day); the keys whose deadline has come are gone
Tick ==
  /\ clock < MaxClock
  /\ clock' = clock + 1
  /\ redis' = DEL(redis, Expired(expireAt, clock + 1))
  /\ expireAt' = DEL(expireAt, Expired(expireAt, clock + 1))
  /\ UNCHANGED <<ui, page, req, nSubmits, nClears, nErrors, hist>>

\* a retention window passes, or half a day less; the keys whose deadline
\* has come are gone
Wait ==
  /\ clock <= MaxClock
  /\ \E d \in {EX - 1, EX} :
       /\ clock' = clock + d
       /\ redis' = DEL(redis, Expired(expireAt, clock + d))
       /\ expireAt' = DEL(expireAt, Expired(expireAt, clock + d))
  /\ UNCHANGED <<ui, page, req, nSubmits, nClears, nErrors, hist>>

---------------------------------------------------------------------------
(* lib/db getStatsForDate, getPostStatsForDate; GET /api/stats             *)
(* (src/app/layout.tsx) and GET /api/posts (src/unnamed/part_001)          *)

\* the orders in which KEYS can return a set of keys
Orders(keys) ==
  {f \in [1..Cardinality(keys) -> keys] :
     \A i, j \in 1..Cardinality(keys) : f[i] = f[j] => i = j}

\* the property names that are array indices (canonical numeric strings),
\* with their value: a JavaScript object enumerates them first, ascending
ArrayIndex == ("7" :> 7)

\* stats[id] = value on an object given as its properties in enumeration
\* order: an array index goes among the array indices, any other name last
ObjectSet(obj, id, value) ==
  LET entry == [id |-> id, stats |-> value]
      Smaller(e) == e.id \in DOMAIN ArrayIndex /\ ArrayIndex[e.id] < ArrayIndex[id]
      NotSmaller(e) == ~Smaller(e)
  IN  IF id \in DOMAIN ArrayIndex
        THEN SelectSeq(obj, Smaller) \o <<entry>> \o SelectSeq(obj, NotSmaller)
        ELSE Append(obj, entry)

\* a read that enumerates the records of every date
QueryKeysStep_AnyDay(r, kind, prefix, after) ==
  /\ req[r].kind = kind /\ req[r].pc = "keys"
  /\ \E keys \in Orders({k \in DOMAIN redis : Len(k) = 3 /\ k[1] = prefix}) :
       req' = [req EXCEPT ![r].order = keys,
                          ![r].pc = IF keys = <<>> THEN after ELSE "get"]
  /\ UNCHANGED <<expireAt, ui, page, redis, clock, nSubmits, nClears, nErrors, hist>>

\* const keys = await redis.keys(pattern)
QueryKeysStep(r, kind, prefix, after) ==
  /\ req[r].kind = kind /\ req[r].pc = "keys"
  /\ \E keys \in Orders(KEYS(redis, prefix, req[r].today)) :
       req' = [req EXCEPT ![r].order = keys,
                          ![r].pc = IF keys = <<>> THEN after ELSE "get"]
  /\ UNCHANGED <<expireAt, ui, page, redis, clock, nSubmits, nClears, nErrors, hist>>

\* a loop without the test: a key that is gone is mapped to an empty record
QueryGetStep_MapsNull(r, kind, fields, after) ==
  LET key == req[r].order[req[r].next]
      value == GET(redis, key)
  IN  /\ req[r].kind = kind /\ req[r].pc = "get"
      /\ req' = [req EXCEPT
                   ![r].stats = ObjectSet(@, key[3],
                                          JSONparse(IF value # Nil THEN value ELSE <<>>, fields)),
                   ![r].next = @ + 1,
                   ![r].pc = IF req[r].next = Len(req[r].order) THEN after ELSE "get"]
      /\ UNCHANGED <<expireAt, ui, page, redis, clock, nSubmits, nClears, nErrors, hist>>

\* for (const key of keys): const stats = await redis.get(key); if (stats) ...
QueryGetStep(r, kind, fields, after) ==
  LET key == req[r].order[req[r].next]
      value == GET(redis, key)
  IN  /\ req[r].kind = kind /\ req[r].pc = "get"
      /\ req' = [req EXCEPT
                   ![r].stats = IF value # Nil
                                  THEN ObjectSet(@, key[3], JSONparse(value, fields))
                                  ELSE @,
                   ![r].next = @ + 1,
                   ![r].pc = IF req[r].next = Len(req[r].order) THEN after ELSE "get"]
      /\ UNCHANGED <<expireAt, ui, page, redis, clock, nSubmits, nClears, nErrors, hist>>

\* GET /api/stats: Promise.all([getTodayStats(), getRecentEvents(50)]) starts
\* both reads; getTodayStats takes the date at once
StatsGET(r) ==
  /\ Free(r)
  /\ req' = [req EXCEPT ![r] = [Idle EXCEPT !.kind = "stats", !.pc = "keys",
                                            !.epc = "lrange", !.today = TodayOf(clock)]]
  /\ UNCHANGED <<expireAt, ui, page, redis, clock, nSubmits, nClears, nErrors, hist>>

StatsKeys(r) == QueryKeysStep(r, "stats", STATS_PREFIX, "join")
StatsGetOne(r) == QueryGetStep(r, "stats", ProfileStatsFields, "join")

\* a read that takes the events off the log
StatsLrange_Drain(r) ==
  /\ req[r].kind = "stats" /\ req[r].epc = "lrange"
  /\ req' = [req EXCEPT ![r].events = getRecentEvents(RECENT_LIMIT), ![r].epc = "done"]
  /\ redis' = LTRIM(redis, EVENTS_KEY, RECENT_LIMIT, -1 + RECENT_LIMIT + MAX_EVENTS)
  /\ UNCHANGED <<expireAt, ui, page, clock, nSubmits, nClears, nErrors, hist>>

\* getRecentEvents(50), whenever the backend executes it
StatsLrange(r) ==
  /\ req[r].kind = "stats" /\ req[r].epc = "lrange"
  /\ req' = [req EXCEPT ![r].events = getRecentEvents(RECENT_LIMIT), ![r].epc = "done"]
  /\ UNCHANGED <<expireAt, ui, page, redis, clock, nSubmits, nClears, nErrors, hist>>

\* a response that is an error when the log and the records read disagree
StatsRespond_Consistent(r) ==
  /\ req[r].kind = "stats" /\ req[r].pc = "join" /\ req[r].epc = "done"
  /\ req' = [req EXCEPT
               ![r].pc = "respond", ![r].headers = StatsCorsHeaders,
               ![r].status = IF (req[r].events = <<>>) = (req[r].stats = <<>>) THEN 200 ELSE 500,
               ![r].body = IF (req[r].events = <<>>) = (req[r].stats = <<>>)
                             THEN [date |-> TodayOf(clock), profiles |-> req[r].stats,
                                   recentEvents |-> req[r].events]
                             ELSE ErrorBody("stats")]
  /\ UNCHANGED <<expireAt, ui, page, redis, clock, nSubmits, nClears, nErrors, hist>>

\* both reads are back: const today = ...; return NextResponse.json({...})
StatsRespond(r) ==
  /\ req[r].kind = "stats" /\ req[r].pc = "join" /\ req[r].epc = "done"
  /\ req' = [req EXCEPT ![r].pc = "respond", ![r].status = 200, ![r].headers = StatsCorsHeaders,
                        ![r].body = [date |-> TodayOf(clock), profiles |-> req[r].stats,
                                     recentEvents |-> req[r].events]]
  /\ UNCHANGED <<expireAt, ui, page, redis, clock, nSubmits, nClears, nErrors, hist>>

\* Persona metadata for display
PERSONA_META ==
  [green  |-> [handle |-> "@PassikiAI", displayName |-> "Passiki", emoji |-> "green"],
   orange |-> [handle |-> "@Builtforyou28", displayName |-> "Built For You", emoji |-> "orange"],
   purple |-> [handle |-> "@quit9to5life", displayName |-> "Quit 9-5 Life", emoji |-> "purple"],
   blue   |-> [handle |-> "@automateprofit", displayName |-> "Automate Profit", emoji |-> "blue"],
   red    |-> [handle |-> "@sidehustlecashh", displayName |-> "Side Hustle Cash", emoji |-> "red"],
   yellow |-> [handle |-> "@wifilifestyle", displayName |-> "Laptop Lifestyle", emoji |-> "yellow"],
   cyan   |-> [handle |-> "@ecomtactics_", displayName |-> "Ecom Tactics", emoji |-> "cyan"],
   pink   |-> [handle |-> "@startingfrom0_", displayName |-> "Starting From Zero", emoji |-> "pink"],
   black  |-> [handle |-> "@aitoolstack_", displayName |-> "AI Tool Stack", emoji |-> "black"],
   white  |-> [handle |-> "@_wealthsystems_", displayName |-> "Wealth Systems", emoji |-> "white"]]

\* personas.push({...}) for one entry of Object.entries(statsMap)
PersonaOf(entry) ==
  LET stats == entry.stats
      meta == IF entry.id \in DOMAIN PERSONA_META
                THEN PERSONA_META[entry.id]
                ELSE [handle |-> IF Truthy(stats.handle) THEN stats.handle ELSE "@" \o entry.id,
                      displayName |-> entry.id, emoji |-> "bullet"]
  IN  [personaId |-> entry.id,
       handle |-> IF Truthy(stats.handle) THEN stats.handle ELSE meta.handle,
       displayName |-> meta.displayName, emoji |-> meta.emoji,
       scheduled |-> stats.scheduled, posted |-> stats.posted, failed |-> stats.failed,
       lastActivity |-> stats.lastActivity]

\* totals that are the counters of the first entry
TotalsOf_First(entries) ==
  IF entries = <<>> THEN [scheduled |-> 0, posted |-> 0, failed |-> 0]
  ELSE [scheduled |-> entries[1].stats.scheduled, posted |-> entries[1].stats.posted,
        failed |-> entries[1].stats.failed]

\* totals.scheduled += stats.scheduled ... over the entries, in order
RECURSIVE TotalsOf(_)
TotalsOf(entries) ==
  IF entries = <<>> THEN [scheduled |-> 0, posted |-> 0, failed |-> 0]
  ELSE LET totals == TotalsOf(SubSeq(entries, 1, Len(entries) - 1))
           stats == entries[Len(entries)].stats
       IN  [scheduled |-> totals.scheduled + stats.scheduled,
            posted |-> totals.posted + stats.posted,
            failed |-> totals.failed + stats.failed]

\* a comparator with its operands exchanged
Compare_Ascending(a, b) == (a.posted + a.scheduled + a.failed) - (b.posted + b.scheduled + b.failed)

\* (b.posted + b.scheduled + b.failed) - (a.posted + a.scheduled + a.failed)
Compare(a, b) == (b.posted + b.scheduled + b.failed) - (a.posted + a.scheduled + a.failed)

\* Array.prototype.sort with the comparator: a stable sort
RECURSIVE Sort(_)
Sort(personas) ==
  IF personas = <<>> THEN <<>>
  ELSE LET sorted == Sort(SubSeq(personas, 1, Len(personas) - 1))
           p == personas[Len(personas)]
           n == Cardinality({i \in 1..Len(sorted) : Compare(sorted[i], p) <= 0})
       IN  SubSeq(sorted, 1, n) \o <<p>> \o SubSeq(sorted, n + 1, Len(sorted))

\* GET /api/posts: const today = ...; getTodayPostStats() takes the same date
PostsGET(r) ==
  /\ Free(r)
  /\ req' = [req EXCEPT ![r] = [Idle EXCEPT !.kind = "posts", !.pc = "keys",
                                            !.today = TodayOf(clock)]]
  /\ UNCHANGED <<expireAt, ui, page, redis, clock, nSubmits, nClears, nErrors, hist>>

PostsKeys(r) == QueryKeysStep(r, "posts", POST_STATS_PREFIX, "lrange")
PostsGetOne(r) == QueryGetStep(r, "posts", PostStatsFields, "lrange")

\* const recentEvents = await getRecentPostEvents(50); totals, personas, sort;
\* return NextResponse.json(data)
PostsLrange(r) ==
  /\ req[r].kind = "posts" /\ req[r].pc = "lrange"
  /\ req' = [req EXCEPT
               ![r].pc = "respond", ![r].status = 200,
               ![r].events = getRecentPostEvents(RECENT_LIMIT),
               ![r].body =
                 [date |-> req[r].today,
                  totals |-> TotalsOf(req[r].stats),
                  personas |-> Sort([i \in 1..Len(req[r].stats) |-> PersonaOf(req[r].stats[i])]),
                  recentEvents |-> getRecentPostEvents(RECENT_LIMIT)]]
  /\ UNCHANGED <<expireAt, ui, page, redis, clock, nSubmits, nClears, nErrors, hist>>

\* the steps of a query
QuerySteps(r) ==
  \/ StatsGET(r)
  \/ StatsKeys(r)
  \/ StatsGetOne(r)
  \/ StatsLrange(r)
  \/ StatsRespond(r)
  \/ PostsGET(r)
  \/ PostsKeys(r)
  \/ PostsGetOne(r)
  \/ PostsLrange(r)

\* getStatsForDate(date), getPostStatsForDate(date): the mapping id -> record
getStatsForDate(date) ==
  [id \in {k[3] : k \in KEYS(redis, STATS_PREFIX, date)} |->
     JSONparse(redis[StatsKey(STATS_PREFIX, date, id)], ProfileStatsFields)]

getPostStatsForDate(date) ==
  [id \in {k[3] : k \in KEYS(redis, POST_STATS_PREFIX, date)} |->
     JSONparse(redis[StatsKey(POST_STATS_PREFIX, date, id)], PostStatsFields)]

\* the dashboard page (src/app/page.tsx): getTotals() over data.profiles
RECURSIVE getTotals(_)
getTotals(profiles) ==
  IF profiles = <<>>
    THEN [likes |-> 0, bookmarks |-> 0, sessions |-> 0, videos |-> 0, searches |-> 0,
          explores |-> 0]
    ELSE LET acc == getTotals(SubSeq(profiles, 1, Len(profiles) - 1))
             p == profiles[Len(profiles)].stats
         IN  [likes |-> acc.likes + p.likes, bookmarks |-> acc.bookmarks + p.bookmarks,
              sessions |-> acc.sessions + p.sessions, videos |-> acc.videos + p.videos,
              searches |-> acc.searches + p.searches, explores |-> acc.explores + p.explores]

---------------------------------------------------------------------------
(* The Clear Data button of the dashboard page (src/unnamed/part_004)      *)

\* onClick={clearData}: confirm('Clear all data for today? ...') is shown
ClearDataClick ==
  /\ ui = "idle"
  /\ ui' = "confirm"
  /\ UNCHANGED <<expireAt, page, redis, req, clock, nSubmits, nClears, nErrors, hist>>

\* the operator cancels: if (!confirm(...)) return
ConfirmCancel ==
  /\ ui = "confirm"
  /\ ui' = "idle"
  /\ UNCHANGED <<expireAt, page, redis, req, clock, nSubmits, nClears, nErrors, hist>>

\* a button that sends the request without the prompt
ConfirmOK_NoPrompt(r) ==
  /\ ui = "idle"
  /\ ui' = "clearing"
  /\ ClearStart(r, "clear")

\* the operator confirms: setClearing(true); fetch('/api/clear', { method: 'POST' })
ConfirmOK(r) ==
  /\ ui = "confirm"
  /\ ui' = "clearing"
  /\ ClearStart(r, "clear")

\* the response is back: finally { setClearing(false) }
ClearDataDone ==
  /\ ui = "clearing"
  /\ \A r \in Req : req[r].kind # "clear"
  /\ ui' = "idle"
  /\ UNCHANGED <<expireAt, page, redis, req, clock, nSubmits, nClears, nErrors, hist>>

\* the polls of the dashboard page (fetchWarmupData, fetchPostsData; fetchData
\* of src/app/page.tsx is fetchWarmupData): the response of the query is back

\* a poll that drops the snapshot on screen when it fails
FetchDataDone_Blank(r, kind, field) ==
  /\ req[r].kind = kind /\ req[r].pc = "respond"
  /\ page' = IF req[r].status = 200
               THEN [page EXCEPT ![field] = req[r].body, !.error = NoError]
               ELSE [page EXCEPT ![field] = Nil, !.error = "Connection lost"]
  /\ req' = [req EXCEPT ![r] = Idle]
  /\ UNCHANGED <<expireAt, ui, redis, clock, nSubmits, nClears, nErrors, hist>>

\* if (!res.ok) throw ...; setWarmupData(json); setError(null)
\* catch: setError('Connection lost')
FetchDataDone(r, kind, field) ==
  /\ req[r].kind = kind /\ req[r].pc = "respond"
  /\ page' = IF req[r].status = 200
               THEN [page EXCEPT ![field] = req[r].body, !.error = NoError]
               ELSE [page EXCEPT !.error = "Connection lost"]
  /\ req' = [req EXCEPT ![r] = Idle]
  /\ UNCHANGED <<expireAt, ui, redis, clock, nSubmits, nClears, nErrors, hist>>

FetchWarmupDataDone(r) == FetchDataDone(r, "stats", "warmupData")
FetchPostsDataDone(r) == FetchDataDone(r, "posts", "postsData")

\* fetch() rejects: the request of a poll does not reach the server
FetchRejects ==
  /\ page' = [page EXCEPT !.error = "Connection lost"]
  /\ UNCHANGED <<expireAt, ui, redis, req, clock, nSubmits, nClears, nErrors, hist>>

\* the response of a submit is sent
SubmitReturn(r) == req[r].kind \in {"log", "posts_log"} /\ Return(r)

---------------------------------------------------------------------------

\* the steps of a submit after its start
SubmitSteps(r) ==
  \/ AddEventLpush(r)
  \/ AddEventLtrim(r)
  \/ AddEventToday(r)
  \/ AddEventGet(r)
  \/ AddEventSet(r)
  \/ AddPostEventLpush(r)
  \/ AddPostEventLtrim(r)
  \/ AddPostEventToday(r)
  \/ AddPostEventGet(r)
  \/ AddPostEventSet(r)
  \/ BackendError(r)
  \/ Return(r)

\* the steps of a clear
ClearSteps(r) ==
  \/ ClearPOST(r)
  \/ ClearKeys(r)
  \/ ClearDelStats(r)
  \/ ClearDelEvents(r)
  \/ PostsClearPOST(r)
  \/ PostsClearKeys(r)
  \/ PostsClearDelStats(r)
  \/ PostsClearDelEvents(r)

\* requests of every kind, served concurrently
Handlers ==
  \E r \in Req :
    \/ LogPOST(r, ActivityEventInputs, MaxSubmits)
    \/ PostsLogPOST(r, PostEventInputs, MaxSubmits)
    \/ SubmitSteps(r)
    \/ ClearSteps(r)

Next == Handlers \/ Tick

\* from the empty store, with the clock running
Spec == Init /\ [][Next]_vars

\* from full logs
FullSpec == InitFull /\ [][Handlers]_vars

\* one request at a time, of every action
SeqNext ==
  \/ LogPOST(1, SeqActivityEventInputs, SeqSubmits)
  \/ PostsLogPOST(1, SeqPostEventInputs, SeqSubmits)
  \/ SubmitSteps(1)

SeqSpec == Init /\ [][SeqNext]_vars

\* submits and queries, one request at a time: two entities a stream, one of
\* them with an array index as its id
OpsActivityEventInputs == ActivityEvents({"green", "7"}, {"like"}, {Undefined}, {1})
OpsPostEventInputs ==
  PostEvents({"blue", "7"}, {"post_scheduled", "post_published"}, {Undefined}, {1})

OpsNext ==
  \/ LogPOST(1, OpsActivityEventInputs, OpsSubmits)
  \/ PostsLogPOST(1, OpsPostEventInputs, OpsSubmits)
  \/ SubmitSteps(1)
  \/ QuerySteps(1)
  \/ Tick

OpsSpec == Init /\ [][OpsNext]_vars

\* requests of every route, one at a time, with one entity a stream; the
\* warmup clear is sent by the dashboard page; time passes by half days and
\* by a retention window
AdminActivityEventInputs == ActivityEvents({"green"}, {"like"}, {Undefined}, {1})
AdminPostEventInputs == PostEvents({"blue"}, {"post_scheduled"}, {Undefined}, {1})

AdminNext ==
  \/ LogPOST(1, AdminActivityEventInputs, OpsSubmits)
  \/ PostsLogPOST(1, AdminPostEventInputs, OpsSubmits)
  \/ SubmitSteps(1)
  \/ QuerySteps(1)
  \/ ClearDataClick
  \/ ConfirmCancel
  \/ ConfirmOK(1)
  \/ ClearDataDone
  \/ ClearKeys(1)
  \/ ClearDelStats(1)
  \/ ClearDelEvents(1)
  \/ PostsClearPOST(1)
  \/ PostsClearKeys(1)
  \/ PostsClearDelStats(1)
  \/ PostsClearDelEvents(1)
  \/ Tick
  \/ Wait

AdminSpec == Init /\ [][AdminNext]_vars

\* submits of one entity a stream, one at a time, that differ in one field:
\* the name (absent, empty, two names), the timestamp (absent, older,
\* newer), the action; the events named ann of timestamp 2 are those that
\* come with a receivedAt of the producer
FieldActivityEventInputs ==
  ActivityEvents({"green"}, {"like"}, {Undefined, "", "ann", "bob"}, {1})
    \cup ActivityEvents({"green"}, {"like", "scroll"}, {Undefined}, {2})
    \cup ActivityEvents({"green"}, {"like"}, {Undefined}, {Null})
    \cup ActivityEvents({"green"}, OtherActions \cup {"dance"}, {Undefined}, {1})
    \cup {[e EXCEPT !.receivedAt = ClientReceivedAt] :
            e \in ActivityEvents({"green"}, {"like"}, {"ann"}, {2})}

FieldPostEventInputs ==
  PostEvents({"blue"}, {"post_scheduled"}, {Undefined, "", "ann", "bob"}, {1})
    \cup PostEvents({"blue"}, {"post_scheduled"}, {Undefined}, {2, Null})
    \cup {[e EXCEPT !.receivedAt = ClientReceivedAt] :
            e \in PostEvents({"blue"}, {"post_scheduled"}, {"ann"}, {2})}

FieldNext ==
  \/ LogPOST(1, FieldActivityEventInputs, FieldSubmits)
  \/ PostsLogPOST(1, FieldPostEventInputs, FieldSubmits)
  \/ SubmitSteps(1)
  \/ Tick

FieldSpec == Init /\ [][FieldNext]_vars

\* the ingestion routes alone: preflights and submits, accepted and rejected,
\* served concurrently, with a backend that can fail
IngestNext ==
  \E r \in Req :
    \/ LogOPTIONS(r)
    \/ PostsLogOPTIONS(r)
    \/ LogPOST(r, ActivityEventInputs, MaxSubmits)
    \/ PostsLogPOST(r, PostEventInputs, MaxSubmits)
    \/ SubmitSteps(r)

IngestSpec == Init /\ [][IngestNext]_vars

\* submits and queries of one entity a stream, served concurrently
RaceNext ==
  \E r \in Req :
    \/ LogPOST(r, AdminActivityEventInputs, MaxSubmits)
    \/ PostsLogPOST(r, AdminPostEventInputs, MaxSubmits)
    \/ SubmitSteps(r)
    \/ QuerySteps(r)

RaceSpec == Init /\ [][RaceNext]_vars

\* the polls of the dashboard page between submits, one request at a time
PageNext ==
  \/ LogPOST(1, AdminActivityEventInputs, MaxSubmits)
  \/ PostsLogPOST(1, AdminPostEventInputs, MaxSubmits)
  \/ AddEventLpush(1)
  \/ AddEventLtrim(1)
  \/ AddEventToday(1)
  \/ AddEventGet(1)
  \/ AddEventSet(1)
  \/ AddPostEventLpush(1)
  \/ AddPostEventLtrim(1)
  \/ AddPostEventToday(1)
  \/ AddPostEventGet(1)
  \/ AddPostEventSet(1)
  \/ BackendError(1)
  \/ SubmitReturn(1)
  \/ QuerySteps(1)
  \/ FetchWarmupDataDone(1)
  \/ FetchPostsDataDone(1)
  \/ FetchRejects

PageSpec == Init /\ [][PageNext]_vars

---------------------------------------------------------------------------
(* The properties                                                          *)

\* the counter record keys of the store
StatsKeysOf(store) == {k \in DOMAIN store : Len(k) = 3}

\* The action-to-delta table of the specification, written independently of
\* the switches of lib/db.
WarmupTable ==
  [like |-> "likes", bookmark |-> "bookmarks", search |-> "searches",
   explore |-> "explores", video_watch |-> "videos", session_start |-> "sessions"]

WarmupCounters == {"likes", "bookmarks", "searches", "explores", "videos", "sessions"}
PostCounters == {"scheduled", "posted", "failed"}

CountersOf(prefix) == IF prefix = STATS_PREFIX THEN WarmupCounters ELSE PostCounters

ZeroCounters(prefix) == [f \in CountersOf(prefix) |-> 0]

\* the counters of a stored record
Counters(prefix, record) == [f \in CountersOf(prefix) |-> record[f]]

FloorDecrement(n) == IF n = 0 THEN 0 ELSE n - 1

TableStep(prefix, rec, action) ==
  IF prefix = STATS_PREFIX
    THEN IF action \in DOMAIN WarmupTable
           THEN [rec EXCEPT ![WarmupTable[action]] = @ + 1]
           ELSE rec
    ELSE CASE action = "post_scheduled" -> [rec EXCEPT !.scheduled = @ + 1]
           [] action = "post_published" ->
                [rec EXCEPT !.posted = @ + 1, !.scheduled = FloorDecrement(@)]
           [] action = "post_failed" ->
                [rec EXCEPT !.failed = @ + 1, !.scheduled = FloorDecrement(@)]
           [] OTHER -> rec

RECURSIVE TableFold(_, _, _)
TableFold(prefix, rec, actions) ==
  IF actions = <<>> THEN rec
  ELSE TableFold(prefix, TableStep(prefix, rec, Head(actions)), Tail(actions))

\* C1: when the submits are processed one after another, every stored counter
\* record equals the action-to-delta table folded, in order and from the
\* all-zero record, over the accepted events of its stream, day and entity;
\* and every key with an accepted event holds a record.
C1_CountersAreFold ==
  /\ \A k \in StatsKeysOf(redis) :
       Counters(k[1], redis[k]) = TableFold(k[1], ZeroCounters(k[1]), Counted(k))
  /\ \A k \in DOMAIN counted : k \in DOMAIN redis

\* three likes then a bookmark for green: {likes: 3, bookmarks: 1, searches: 0, ...}
C1_Witness ==
  \E k \in StatsKeysOf(redis) :
    /\ k[1] = STATS_PREFIX /\ k[3] = "green"
    /\ Counted(k) = <<"like", "like", "like", "bookmark">>
    /\ redis[k].likes = 3 /\ redis[k].bookmarks = 1 /\ redis[k].searches = 0

\* the counter key a submit works on, and the counters it read
PrefixOf(kind) == IF kind = "log" THEN STATS_PREFIX ELSE POST_STATS_PREFIX
IdOf(kind, event) == IF kind = "log" THEN event.profileId ELSE event.personaId
KeyOf(r) == StatsKey(PrefixOf(req[r].kind), req[r].today, IdOf(req[r].kind, req[r].event))
ReadCounters(r) ==
  IF req[r].existing = Nil THEN ZeroCounters(PrefixOf(req[r].kind))
                           ELSE Counters(PrefixOf(req[r].kind), req[r].existing)

\* C2: the counter step is a read-modify-write of the whole record: the record a
\* submit writes is the record it read earlier plus its own delta, whatever
\* the key holds when the write happens, so the last write wins.
C2_LastWriteWins ==
  [][\A r \in Req :
       (req[r].pc = "set" /\ req'[r].pc = "respond" /\ req'[r].status = 200) =>
         /\ KeyOf(r) \in DOMAIN redis'
         /\ Counters(PrefixOf(req[r].kind), redis'[KeyOf(r)])
              = TableStep(PrefixOf(req[r].kind), ReadCounters(r), req[r].event.action)]_vars

\* two likes for one key have both returned success, no clear and no error
\* happened, and the record counts one like
C2_Witness ==
  /\ \A r \in Req : req[r].pc = "idle"
  /\ nClears = 0 /\ nErrors = 0
  /\ \E k \in StatsKeysOf(redis) :
       Counted(k) = <<"like", "like">> /\ redis[k].likes = 1

\* C3, as stated: in every reachable state the warmup log holds at most 500
\* entries and the post log at most 200.
C3_CapInEveryState ==
  /\ Len(ListAt(redis, EVENTS_KEY)) <= MAX_EVENTS
  /\ Len(ListAt(redis, POST_EVENTS_KEY)) <= MAX_POST_EVENTS

\* C3, amended: a log holds at most its cap (500 warmup, 200 post) in every
\* state in which no push on it has happened since its last truncate; it may
\* hold more between an append's push and the next truncate.
C3_CapAfterTruncate ==
  /\ untrimmed[EVENTS_KEY] = 0 => Len(ListAt(redis, EVENTS_KEY)) <= MAX_EVENTS
  /\ untrimmed[POST_EVENTS_KEY] = 0 => Len(ListAt(redis, POST_EVENTS_KEY)) <= MAX_POST_EVENTS

\* a truncate has cut the warmup log back to its cap
C3_Witness ==
  /\ untrimmed[EVENTS_KEY] = 0
  /\ live[EVENTS_KEY] > MAX_EVENTS
  /\ Len(ListAt(redis, EVENTS_KEY)) = MAX_EVENTS

\* the appends to a list that have pushed and have not truncated: those in
\* flight between the two commands, and those whose truncate failed
PendingTrim(key) ==
  Cardinality({r \in Req : req[r].pc = "ltrim" /\ EventsKeyOf(req[r].kind) = key})
    + aborted[key]

\* C4: under concurrent appends a log never holds more than its cap plus the
\* number of appends that have pushed and not truncated (so at most the cap
\* once there is none); the truncates remove nothing but the oldest entries
\* beyond the cap, and what remains is the newest entries in their order.
C4_OverrunBounded ==
  \A key \in ListKeys :
    LET list == ListAt(redis, key)
    IN  /\ Len(list) <= MaxOf(key) + PendingTrim(key)
        /\ Len(list) <= live[key]
        /\ Len(list) >= Min(MaxOf(key), live[key])
        /\ \A i \in 1..Len(list) : list[i] = JSONstringify(AppendedAt(key, i))

\* two appends have pushed on the full warmup log and neither has truncated
C4_Witness ==
  /\ Len(ListAt(redis, EVENTS_KEY)) = MAX_EVENTS + 2
  /\ \A r \in {1, 2} : req[r].kind = "log" /\ req[r].pc = "ltrim"

\* C5: every stored post counter record has scheduled, posted and failed >= 0;
\* a post_published or post_failed whose submit read no record, or a record
\* with scheduled = 0, writes scheduled = 0 and adds 1 to posted or failed;
\* a record written by one post_published alone is {scheduled 0, posted 1,
\* failed 0}.
C5_CountersNeverNegative ==
  /\ \A k \in StatsKeysOf(redis) :
       k[1] = POST_STATS_PREFIX =>
         /\ redis[k].scheduled >= 0 /\ redis[k].posted >= 0 /\ redis[k].failed >= 0
         /\ Counted(k) = <<"post_published">> =>
              Counters(k[1], redis[k]) = [scheduled |-> 0, posted |-> 1, failed |-> 0]
         /\ Counted(k) = <<"post_failed">> =>
              Counters(k[1], redis[k]) = [scheduled |-> 0, posted |-> 0, failed |-> 1]
  /\ \A r \in Req :
       (/\ req[r].kind = "posts_log" /\ req[r].pc = "set"
        /\ req[r].event.action \in {"post_published", "post_failed"}
        /\ ReadCounters(r).scheduled = 0) =>
         LET read == ReadCounters(r)
             after == PostStatsAfter(req[r].existing, req[r].event)
             published == IF req[r].event.action = "post_published" THEN 1 ELSE 0
         IN  /\ after.scheduled = 0
             /\ after.posted = read.posted + published
             /\ after.failed = read.failed + (1 - published)

\* post_published for a persona with no record: {scheduled 0, posted 1, failed 0}
C5_Witness ==
  \E k \in StatsKeysOf(redis) :
    /\ k[1] = POST_STATS_PREFIX
    /\ Counted(k) = <<"post_published">>
    /\ redis[k].scheduled = 0 /\ redis[k].posted = 1 /\ redis[k].failed = 0

\* recent(limit) on the stream of a list
Recent(key, limit) ==
  IF key = EVENTS_KEY THEN getRecentEvents(limit) ELSE getRecentPostEvents(limit)

\* C6, as stated: for every limit >= 1, recent(limit) holds every appended
\* event after which fewer than limit others were appended (the j-th newest
\* event, j <= limit), at index j - 1.
C6_RecentIncludesAppended ==
  \A key \in ListKeys : \A limit \in {1, RECENT_LIMIT, MaxOf(key) + 1} :
    LET recent == Recent(key, limit)
    IN  \A j \in 1..Min(limit, AppendedLen(key)) :
          j <= Len(recent) /\ recent[j] = AppendedAt(key, j)

\* C6, amended: for every limit from 1 to the cap of the stream, recent(limit)
\* holds at index j - 1 the j-th newest appended event, j <= limit, provided
\* the stream was not cleared after that event was appended.
C6_RecentIncludesUncleared ==
  \A key \in ListKeys : \A limit \in {1, RECENT_LIMIT, MaxOf(key)} :
    LET recent == Recent(key, limit)
    IN  \A j \in 1..Min(limit, live[key]) :
          j <= Len(recent) /\ recent[j] = AppendedAt(key, j)

\* a submit on the full warmup log has answered success and its event is the
\* first of recent(1)
C6_Witness ==
  /\ live[EVENTS_KEY] > MAX_EVENTS
  /\ \E r \in Req :
       /\ req[r].kind = "log" /\ req[r].pc = "respond" /\ req[r].status = 200
       /\ getRecentEvents(1) = <<req[r].event>>

\* the steps on the list of a stream
AppendStep(key) == pushed'[key] # pushed[key]
TruncateStep(key) ==
  \E r \in Req : /\ req[r].kind \in {"log", "posts_log"} /\ EventsKeyOf(req[r].kind) = key
                 /\ req[r].pc = "ltrim" /\ req'[r].pc = "today"
ClearStep(key) ==
  \E r \in Req : /\ req[r].kind \in {"clear", "posts_clear"}
                 /\ (req[r].kind = "clear") = (key = EVENTS_KEY)
                 /\ req[r].pc = "delevents" /\ req'[r].status = 200

\* the stored entries that recent(limit) reads and parses
RecentEntries(key, limit) == LRANGE(redis, key, 0, limit - 1)

\* recent(limit) is the min(limit, length) newest appended entries, newest
\* first, whatever their timestamps
RecentIsNewest ==
  \A key \in ListKeys : \A limit \in {1, RECENT_LIMIT, MaxOf(key) + 1} :
    LET recent == Recent(key, limit)
    IN  /\ Len(recent) = Min(limit, Len(ListAt(redis, key)))
        /\ \A i \in 1..Len(recent) : recent[i] = AppendedAt(key, i)

\* C7, as stated: two calls of recent(limit) with no append between them
\* return the same sequence.
C7_SameWithoutAppend ==
  [][\A key \in ListKeys : \A limit \in {1, RECENT_LIMIT} :
       ~AppendStep(key) => Recent(key, limit)' = Recent(key, limit)]_vars

\* C7, amended: recent(limit) is exactly the min(limit, log length) most
\* recently appended entries, newest first, in reverse order of their appends
\* and never ordered by timestamp; two calls with no append, truncate or clear
\* of the stream between them return the same sequence.
C7_RecentIsNewest ==
  /\ []RecentIsNewest
  /\ [][\A key \in ListKeys :
         ~(AppendStep(key) \/ TruncateStep(key) \/ ClearStep(key)) =>
           /\ \A limit \in {1, RECENT_LIMIT} : Recent(key, limit)' = Recent(key, limit)
           /\ RecentEntries(key, MaxOf(key) + 1)' = RecentEntries(key, MaxOf(key) + 1)]_vars

\* recent(50) of the warmup log starts with an event of timestamp 1 followed
\* by events of timestamp 2: the order of the appends, not of the timestamps
C7_Witness ==
  LET recent == getRecentEvents(RECENT_LIMIT)
  IN  /\ Len(recent) = RECENT_LIMIT
      /\ recent[1].timestamp < recent[2].timestamp
      /\ recent[1] = pushed[EVENTS_KEY][1]

\* what a submit validates, on the stream of a list
Rejects(key, event) == IF key = EVENTS_KEY THEN LogRejects(event) ELSE PostsLogRejects(event)
FieldsOf(key) == IF key = EVENTS_KEY THEN ActivityEventFields ELSE PostEventFields

\* every entry of a log is an event that passes the validation of submit
EntriesAccepted ==
  \A key \in ListKeys :
    LET list == ListAt(redis, key)
    IN  \A i \in 1..Len(list) : ~Rejects(key, JSONparse(list[i], FieldsOf(key)))

\* a step leaves a log as it is, or puts one accepted event in front of it, or
\* removes the entries beyond the cap from its oldest end, or (the clear of
\* the stream) removes the log
LogStep(key) ==
  LET list == ListAt(redis, key)
      after == ListAt(redis', key)
  IN  \/ after = list
      \/ \E r \in Req :
           /\ req[r].kind \in {"log", "posts_log"} /\ EventsKeyOf(req[r].kind) = key
           /\ req[r].pc = "lpush"
           /\ ~Rejects(key, req[r].event)
           /\ after = <<JSONstringify(req[r].event)>> \o list
      \/ /\ TruncateStep(key)
         /\ Len(list) > MaxOf(key)
         /\ after = SubSeq(list, 1, MaxOf(key))
      \/ ClearStep(key) /\ after = <<>>

\* C8: every log entry is an event accepted by submit; a step never changes
\* the content or the relative order of the entries: it adds one accepted
\* event at the head, or removes entries from the oldest end (truncation), or
\* removes the whole log (clear of the stream).
C8_AppendOnly ==
  /\ []EntriesAccepted
  /\ [][\A key \in ListKeys : LogStep(key)]_vars

\* the full post log after an append and its truncate: the new event in
\* front, the oldest entry gone, the others as they were
C8_Witness ==
  LET list == ListAt(redis, POST_EVENTS_KEY)
  IN  /\ live[POST_EVENTS_KEY] = MAX_POST_EVENTS + 1
      /\ untrimmed[POST_EVENTS_KEY] = 0
      /\ Len(list) = MAX_POST_EVENTS
      /\ list[1] = JSONstringify(pushed[POST_EVENTS_KEY][1])
      /\ \A i \in 2..MAX_POST_EVENTS : list[i] = JSONstringify(OldPostEvent)

\* the entity id or the action of the event of a submit is missing or empty
Incomplete(r) ==
  ~Truthy(IdOf(req[r].kind, req[r].event)) \/ ~Truthy(req[r].event.action)

\* C9: a submit, on either stream, whose entity id or action is missing or
\* empty answers 400 and is at no store operation; the step that rejects it
\* leaves the store unchanged, and no such event is ever pushed on a log or
\* counted in a record.
C9_IncompleteRejected ==
  /\ [](/\ \A r \in Req :
            (req[r].kind \in {"log", "posts_log"} /\ Incomplete(r)) =>
              req[r].pc = "respond" /\ req[r].status = 400
        /\ \A key \in ListKeys : \A i \in 1..Len(pushed[key]) :
            /\ Truthy(pushed[key][i].action)
            /\ Truthy(IdOf(IF key = EVENTS_KEY THEN "log" ELSE "posts_log", pushed[key][i]))
        /\ \A k \in DOMAIN counted : Truthy(k[3]) /\ \A i \in 1..Len(counted[k]) : Truthy(counted[k][i]))
  /\ [][\A r \in Req :
         (req'[r].kind \in {"log", "posts_log"} /\ req'[r].status = 400 /\ req[r].status # 400) =>
           redis' = redis]_vars

\* a warmup submit without profile id is answered 400 while the log holds the
\* one event accepted before
C9_Witness ==
  /\ Len(ListAt(redis, EVENTS_KEY)) = 1
  /\ Len(pushed[EVENTS_KEY]) = 1
  /\ \E r \in Req :
       /\ req[r].kind = "log" /\ req[r].pc = "respond" /\ req[r].status = 400
       /\ req[r].event.profileId = Undefined

\* C10: a post submit whose action is present and is not post_scheduled,
\* post_published or post_failed answers 400 and is at no store operation;
\* every entry of the post log has one of the three actions, and so has every
\* event counted in a post record.
C10_UnknownActionRejected ==
  /\ \A r \in Req :
       (/\ req[r].kind = "posts_log"
        /\ Truthy(req[r].event.action)
        /\ req[r].event.action \notin {"post_scheduled", "post_published", "post_failed"}) =>
         req[r].pc = "respond" /\ req[r].status = 400
  /\ \A e \in {getRecentPostEvents(MAX_POST_EVENTS + 1)[i] :
                  i \in 1..Len(ListAt(redis, POST_EVENTS_KEY))} :
       e.action \in {"post_scheduled", "post_published", "post_failed"}
  /\ \A k \in DOMAIN counted :
       k[1] = POST_STATS_PREFIX =>
         \A i \in 1..Len(counted[k]) :
           counted[k][i] \in {"post_scheduled", "post_published", "post_failed"}

\* a post submit with action "like" is answered 400 while the post log holds
\* the one event accepted before
C10_Witness ==
  /\ Len(ListAt(redis, POST_EVENTS_KEY)) = 1
  /\ Len(pushed[POST_EVENTS_KEY]) = 1
  /\ \E r \in Req :
       /\ req[r].kind = "posts_log" /\ req[r].pc = "respond" /\ req[r].status = 400
       /\ req[r].event.action = "like"

\* the submits
IsSubmit(r) == req[r].kind \in {"log", "posts_log"}

\* the submits on the stream of a list that have pushed and not yet written
\* their counter record
InFlight(key) ==
  Cardinality({r \in Req : /\ IsSubmit(r) /\ EventsKeyOf(req[r].kind) = key
                           /\ req[r].pc \in {"ltrim", "today", "get", "set"}})

RECURSIVE SumLen(_, _)
SumLen(f, keys) ==
  IF keys = {} THEN 0
  ELSE LET k == CHOOSE x \in keys : TRUE IN Len(f[k]) + SumLen(f, keys \ {k})

\* the counter contributions written so far on the stream of a list
CountedTotal(key) ==
  SumLen(counted, {k \in DOMAIN counted : (k[1] = STATS_PREFIX) = (key = EVENTS_KEY)})

\* the entries of a list, as a set
Entries(key) == {ListAt(redis, key)[i] : i \in 1..Len(ListAt(redis, key))}

\* in every state: a submit past its push has its event among the appended
\* ones, and the appended events cover the counted and the in-flight ones
AppendedBeforeCounted ==
  /\ \A r \in Req :
       (/\ IsSubmit(r)
        /\ \/ req[r].pc \in {"ltrim", "today", "get", "set"}
           \/ req[r].pc = "respond" /\ req[r].status = 200) =>
         \E i \in 1..Len(pushed[EventsKeyOf(req[r].kind)]) :
           pushed[EventsKeyOf(req[r].kind)][i] = req[r].event
  /\ \A key \in ListKeys : CountedTotal(key) + InFlight(key) <= Len(pushed[key])

\* C11: within a submit the append comes before the counter step: a submit at
\* or past its truncate, counter read or counter write has appended its
\* event, and no more counter contributions are written than events were
\* appended; a submit that fails between the push and the counter write
\* leaves the store as it is, the event in the log (when no clear has run)
\* and no counter record written for it.
C11_AppendBeforeCount ==
  /\ []AppendedBeforeCounted
  /\ [][\A r \in Req :
         (/\ IsSubmit(r) /\ req[r].pc \in {"ltrim", "get", "set"}
          /\ req'[r].status = 500) =>
           /\ redis' = redis /\ counted' = counted
           /\ nClears = 0 => JSONstringify(req[r].event) \in Entries(EventsKeyOf(req[r].kind))]_vars

\* a warmup submit has failed after its push: the event is in the log, no
\* counter record exists
C11_Witness ==
  /\ nClears = 0
  /\ StatsKeysOf(redis) = {}
  /\ \E r \in Req :
       /\ req[r].kind = "log" /\ req[r].pc = "respond" /\ req[r].status = 500
       /\ ListAt(redis, EVENTS_KEY) = <<JSONstringify(req[r].event)>>

\* C12: a backend operation of a submit that fails changes nothing in the
\* store (what the submit did before stays), the submit answers 500, and a
\* submit that has answered 500 is at its response: it issues no further
\* command, the failed one included.
C12_FailureStops ==
  /\ [](\A r \in Req : (IsSubmit(r) /\ req[r].status = 500) => req[r].pc = "respond")
  /\ [][/\ nErrors' # nErrors =>
            /\ redis' = redis /\ expireAt' = expireAt
            /\ \E r \in Req : /\ req[r].pc \in RedisSteps
                               /\ req'[r].pc = "respond" /\ req'[r].status = 500
         /\ \A r \in Req :
              (IsSubmit(r) /\ req[r].status = 500 /\ req'[r] # req[r]) =>
                req'[r] = Idle /\ redis' = redis]_vars

\* a post submit has answered 500 after its push and truncate: the event is
\* still the only entry of the post log
C12_Witness ==
  /\ nClears = 0
  /\ \E r \in Req :
       /\ req[r].kind = "posts_log" /\ req[r].pc = "respond" /\ req[r].status = 500
       /\ req[r].today # Null
       /\ ListAt(redis, POST_EVENTS_KEY) = <<JSONstringify(req[r].event)>>

\* how many of the appended events of a list have the id and the action
Occurrences(key, id, action) ==
  Cardinality({i \in 1..Len(pushed[key]) :
                 /\ IdOf(IF key = EVENTS_KEY THEN "log" ELSE "posts_log", pushed[key][i]) = id
                 /\ pushed[key][i].action = action})

\* C13: submits are not deduplicated.  When the submits run one after the
\* other, none has failed and none is running, each log holds one entry per
\* accepted submit, equal events included, and each counter counts every one
\* of them: a warmup counter equals the number of appended events of its
\* action and profile, posted and failed those of post_published and
\* post_failed.
C13_NotIdempotent ==
  (nErrors = 0 /\ \A r \in Req : req[r].pc = "idle") =>
    /\ Len(ListAt(redis, EVENTS_KEY)) + Len(ListAt(redis, POST_EVENTS_KEY)) = nSubmits
    /\ \A key \in ListKeys : \A i \in 1..Len(pushed[key]) :
         ListAt(redis, key)[i] = JSONstringify(pushed[key][i])
    /\ \A k \in StatsKeysOf(redis) :
         IF k[1] = STATS_PREFIX
           THEN \A a \in DOMAIN WarmupTable :
                  redis[k][WarmupTable[a]] = Occurrences(EVENTS_KEY, k[3], a)
           ELSE /\ redis[k].posted = Occurrences(POST_EVENTS_KEY, k[3], "post_published")
                /\ redis[k].failed = Occurrences(POST_EVENTS_KEY, k[3], "post_failed")

\* the same like submitted twice: two equal entries, likes = 2
C13_Witness ==
  /\ \A r \in Req : req[r].pc = "idle"
  /\ Len(pushed[EVENTS_KEY]) = 2
  /\ pushed[EVENTS_KEY][1] = pushed[EVENTS_KEY][2]
  /\ ListAt(redis, EVENTS_KEY) = <<JSONstringify(pushed[EVENTS_KEY][1]),
                                   JSONstringify(pushed[EVENTS_KEY][1])>>
  /\ \E k \in StatsKeysOf(redis) : k[1] = STATS_PREFIX /\ redis[k].likes = 2

---------------------------------------------------------------------------
(* Clears                                                                  *)

\* the stream of a request: its counter prefix and its log
StreamPrefix(kind) ==
  IF kind \in {"log", "clear", "stats"} THEN STATS_PREFIX ELSE POST_STATS_PREFIX
StreamLog(kind) ==
  IF kind \in {"log", "clear", "stats"} THEN EVENTS_KEY ELSE POST_EVENTS_KEY

IsClear(r) == req[r].kind \in {"clear", "posts_clear"}

\* allForDate(stream, date), read at once
AllForDate(prefix, date) ==
  IF prefix = STATS_PREFIX THEN getStatsForDate(date) ELSE getPostStatsForDate(date)

\* the dates the clock of the model can show
Days == {TodayOf(c) : c \in 1..(MaxClock + EX)}

\* the clear of the request in slot r completes with this step
ClearCompletes(r) == IsClear(r) /\ req[r].pc = "delevents" /\ req'[r].status = 200

\* C14: requests being served one at a time (no submit runs during a clear),
\* when a clear of a stream completes, allForDate for that stream and the
\* date of the clear is the empty mapping and recent(limit) is the empty
\* sequence; they stay empty as long as no submit appends or writes: while
\* no event has been appended since the log was deleted the log reads empty,
\* and only the counter write of a submit makes allForDate of any date
\* non-empty.
C14_ClearEmpties ==
  /\ [](\A key \in ListKeys :
          (live[key] = 0 /\ pushed[key] # <<>>) => Recent(key, RECENT_LIMIT) = <<>>)
  /\ [][/\ \A r \in Req :
             ClearCompletes(r) =>
               /\ AllForDate(StreamPrefix(req[r].kind), req[r].today)' = <<>>
               /\ Recent(StreamLog(req[r].kind), RECENT_LIMIT)' = <<>>
        /\ \A prefix \in {STATS_PREFIX, POST_STATS_PREFIX} : \A d \in Days :
             (AllForDate(prefix, d) = <<>> /\ AllForDate(prefix, d)' # <<>>) =>
               \E r \in Req : /\ IsSubmit(r) /\ StreamPrefix(req[r].kind) = prefix
                              /\ req[r].pc = "set" /\ req'[r].status = 200]_vars

\* a clear has completed that deleted a counter record of its date and a log
\* with entries
C14_Witness ==
  \E r \in Req :
    /\ IsClear(r) /\ req[r].pc = "respond" /\ req[r].status = 200
    /\ req[r].keys # {}
    /\ pushed[StreamLog(req[r].kind)] # <<>> /\ live[StreamLog(req[r].kind)] = 0
    /\ AllForDate(StreamPrefix(req[r].kind), req[r].today) = <<>>
    /\ Recent(StreamLog(req[r].kind), RECENT_LIMIT) = <<>>

\* C15: each deleting step of a clear of one stream removes only counter
\* records of that stream whose date is the date of the clear, and that
\* stream's log; every other key (the records of other dates, the other
\* stream's log and records) keeps its value and its retention deadline, and
\* no key is added.
C15_ClearDeletesOnlyItsOwn ==
  [][\A r \in Req :
       (/\ IsClear(r) /\ req[r].pc \in {"delstats", "delevents"}
        /\ req'[r].pc # req[r].pc /\ req'[r].status # 500) =>
          /\ DOMAIN redis' \subseteq DOMAIN redis
          /\ \A k \in DOMAIN redis :
               IF k \in DOMAIN redis'
                 THEN redis'[k] = redis[k]
                 ELSE \/ k = StreamLog(req[r].kind)
                      \/ /\ Len(k) = 3 /\ k[1] = StreamPrefix(req[r].kind)
                         /\ k[2] = req[r].today
          /\ \A k \in DOMAIN expireAt :
               k \in DOMAIN redis' => (k \in DOMAIN expireAt' /\ expireAt'[k] = expireAt[k])]_vars

\* a warmup clear has completed and deleted a record; a warmup record of
\* another date, the post log and a post record are still there
C15_Witness ==
  \E r \in Req :
    /\ req[r].kind = "clear" /\ req[r].pc = "respond" /\ req[r].status = 200
    /\ req[r].keys # {}
    /\ \E k \in StatsKeysOf(redis) : k[1] = STATS_PREFIX /\ k[2] # req[r].today
    /\ \E k \in StatsKeysOf(redis) : k[1] = POST_STATS_PREFIX
    /\ ListAt(redis, POST_EVENTS_KEY) # <<>>

\* C16: a counter record disappears only in the delete step of a clear
\* request that enumerated it or when time passes up to its retention
\* deadline; a log with entries becomes empty only in the log-delete step
\* of a clear of its stream; no step of a submit or of a query does either.
\* The dashboard page sends the warmup clear only from the confirmation
\* prompt, when the operator accepts it.
C16_ClearIsExplicit ==
  [][/\ \A k \in StatsKeysOf(redis) :
          k \notin DOMAIN redis' =>
            \/ \E r \in Req : /\ IsClear(r) /\ req[r].pc = "delstats"
                              /\ req'[r].pc = "delevents" /\ k \in req[r].keys
                              /\ k[1] = StreamPrefix(req[r].kind)
            \/ clock' > clock /\ k \in DOMAIN expireAt /\ expireAt[k] <= clock'
     /\ \A key \in ListKeys :
          (ListAt(redis, key) # <<>> /\ ListAt(redis', key) = <<>>) => ClearStep(key)
     /\ \A r \in Req :
          (req'[r].kind = "clear" /\ req[r].kind # "clear") =>
            (ui = "confirm" /\ ui' = "clearing")]_vars

\* the operator has confirmed the prompt and the clear so sent has deleted a
\* counter record
C16_Witness ==
  /\ ui = "clearing"
  /\ \E r \in Req : /\ req[r].kind = "clear" /\ req[r].pc = "respond" /\ req[r].status = 200
                    /\ req[r].keys # {} /\ req[r].keys \cap DOMAIN redis = {}

---------------------------------------------------------------------------
(* Snapshots                                                               *)

IsQuery(r) == req[r].kind \in {"stats", "posts"}

\* the request in slot r has its response, a success
Answered(r) == req[r].pc = "respond" /\ req[r].status = 200

\* the entity records of the snapshot in slot r, in the order of the
\* response: the personas of a post snapshot, the profiles of a warmup one
EntitiesOf(r) ==
  IF req[r].kind = "posts"
    THEN req[r].body.personas
    ELSE [i \in 1..Len(req[r].body.profiles) |-> req[r].body.profiles[i].stats]

EntityId(r, i) ==
  IF req[r].kind = "posts" THEN req[r].body.personas[i].personaId
  ELSE req[r].body.profiles[i].id

\* the sum of one counter over the first n records of a sequence
RECURSIVE SumField(_, _, _)
SumField(records, field, n) ==
  IF n = 0 THEN 0 ELSE records[n][field] + SumField(records, field, n - 1)

Activity(r, i) ==
  LET e == EntitiesOf(r)[i]
  IN  IF req[r].kind = "posts"
        THEN e.scheduled + e.posted + e.failed
        ELSE e.likes + e.bookmarks + e.searches + e.explores + e.videos + e.sessions

\* the place of the record of an entity in the enumeration of the store
Position(r, id) == CHOOSE n \in 1..Len(req[r].order) : req[r].order[n][3] = id

\* the order of two ids as properties of a mapping filled in the order of the
\* enumeration: array indices first, ascending; then the others as enumerated
EnumeratedBefore(r, a, b) ==
  IF a \in DOMAIN ArrayIndex
    THEN b \notin DOMAIN ArrayIndex \/ ArrayIndex[a] < ArrayIndex[b]
    ELSE b \notin DOMAIN ArrayIndex /\ Position(r, a) < Position(r, b)

C19_QueryReadsOnly ==
  [][\A r \in Req :
       ((IsQuery(r) \/ req'[r].kind \in {"stats", "posts"}) /\ req'[r] # req[r]) =>
         (redis' = redis /\ expireAt' = expireAt)]_vars

\* a warmup query has answered with the records and the events it read, and
\* the store still holds them
C19_Witness ==
  \E r \in Req :
    /\ req[r].kind = "stats" /\ Answered(r)
    /\ Len(req[r].body.profiles) = 2
    /\ req[r].body.recentEvents # <<>>
    /\ Len(req[r].body.recentEvents) = Len(ListAt(redis, EVENTS_KEY))
    /\ \A i \in 1..2 :
         LET k == StatsKey(STATS_PREFIX, req[r].today, req[r].body.profiles[i].id)
         IN  k \in DOMAIN redis /\ k \in DOMAIN expireAt

\* the stream of the query in slot r is empty for the date of the query: its
\* log has no entry and no counter record of that date exists, and the date
\* has not changed since the query started
EmptyStream(r) ==
  /\ TodayOf(clock) = req[r].today
  /\ ListAt(redis, StreamLog(req[r].kind)) = <<>>
  /\ KEYS(redis, StreamPrefix(req[r].kind), req[r].today) = {}

---------------------------------------------------------------------------
(* Queries that run while a submit runs                                    *)

\* a successful snapshot with an event in its recent events and no counter
\* record, and one with a counter record and no event
ListedNotCounted(r) ==
  IsQuery(r) /\ Answered(r) /\ req[r].body.recentEvents # <<>> /\ EntitiesOf(r) = <<>>
CountedNotListed(r) ==
  IsQuery(r) /\ Answered(r) /\ req[r].body.recentEvents = <<>> /\ EntitiesOf(r) # <<>>

\* C21: a query that runs while a submit runs answers with what its reads
\* returned, whether or not the log and the counters agree: the response of
\* a query is an error only when a backend command of the query has failed,
\* and a query without such a failure answers success with the records and
\* the events it read.
C21_InconsistentNotError ==
  /\ [](\A r \in Req :
          (IsQuery(r) /\ req[r].pc = "respond") =>
            \/ req[r].status = 500 /\ nErrors > 0
            \/ /\ req[r].status = 200
               /\ req[r].body.recentEvents = req[r].events
               /\ Len(EntitiesOf(r)) = Len(req[r].stats))
  /\ [][\A r \in Req :
          (IsQuery(r) /\ req'[r].status = 500 /\ req[r].status # 500) =>
            nErrors' = nErrors + 1]_vars

\* a submit has appended its event and not yet written its counter; a query
\* has answered success with the event in its recent events and no record
C21_Witness ==
  \E r, q \in Req :
    /\ ListedNotCounted(r)
    /\ req[q].kind \in {"log", "posts_log"} /\ req[q].pc \in {"ltrim", "today", "get", "set"}
    /\ StreamLog(req[q].kind) = StreamLog(req[r].kind)
    /\ JSONparse(JSONstringify(req[q].event), FieldsOf(StreamLog(req[q].kind)))
         = req[r].body.recentEvents[1]

---------------------------------------------------------------------------
(* The fields of a counter record that are not counters                    *)

\* the submit in slot r has written its record and answers success
Written(r) == IsSubmit(r) /\ req[r].pc = "respond" /\ req[r].status = 200

\* the record of the submit in slot r, as read from the store
RecordOf(r) ==
  JSONparse(redis[KeyOf(r)],
            IF req[r].kind = "log" THEN ProfileStatsFields ELSE PostStatsFields)

\* C22: requests being served one at a time, when a submit has written its
\* record the lastActivity of the record is the timestamp of its event, for
\* every action, whatever the lastActivity of the record was before.
C22_LastActivityReplaced ==
  \A r \in Req :
    Written(r) =>
      /\ KeyOf(r) \in DOMAIN redis
      /\ RecordOf(r).lastActivity = req[r].event.timestamp

\* a scroll of timestamp 1 has been written after an event of the same
\* profile of timestamp 2: lastActivity is 1
C22_Witness ==
  \E r \in Req :
    /\ Written(r) /\ req[r].kind = "log" /\ nErrors = 0 /\ clock = 1
    /\ req[r].event.action = "scroll" /\ req[r].event.timestamp = 1
    /\ Len(pushed[EVENTS_KEY]) >= 2
    /\ pushed[EVENTS_KEY][2].timestamp = 2
    /\ RecordOf(r).lastActivity = 1

\* the display name of a record or of an event of a stream
NameField(kind) == IF kind = "log" THEN "username" ELSE "handle"

\* the name of the newest appended event of an entity that carries one, from
\* the i-th newest on; undefined if none does
RECURSIVE LatestName(_, _, _)
LatestName(kind, id, i) ==
  LET events == pushed[EventsKeyOf(kind)]
  IN  IF i > Len(events) THEN Undefined
      ELSE IF IdOf(kind, events[i]) = id /\ Truthy(events[i][NameField(kind)])
             THEN events[i][NameField(kind)]
             ELSE LatestName(kind, id, i + 1)

\* the name of the record stored under a key, undefined if there is none
NameAt(store, kind, key) ==
  IF key \in DOMAIN store /\ NameField(kind) \in DOMAIN store[key]
    THEN store[key][NameField(kind)]
    ELSE Undefined

\* C23: requests being served one at a time, the counter write of a submit
\* sets the name of the record to the name of its event if that is not
\* empty, and leaves the name the record had otherwise; so, after any number
\* of submits of one day none of which failed, the name of each record is
\* the name of the latest event of its entity that carried one.
C23_NameIsSticky ==
  /\ []((nErrors = 0 /\ clock = 1 /\ \A r \in Req : req[r].pc \in {"idle", "respond"}) =>
          \A kind \in {"log", "posts_log"} :
            \A i \in 1..Len(pushed[EventsKeyOf(kind)]) :
              LET id == IdOf(kind, pushed[EventsKeyOf(kind)][i])
                  key == StatsKey(PrefixOf(kind), TodayOf(clock), id)
              IN  key \in DOMAIN redis /\ NameAt(redis, kind, key) = LatestName(kind, id, 1))
  /\ [][\A r \in Req :
          (IsSubmit(r) /\ req[r].pc = "set" /\ req'[r].status = 200) =>
            NameAt(redis', req[r].kind, KeyOf(r)) =
              IF Truthy(req[r].event[NameField(req[r].kind)])
                THEN req[r].event[NameField(req[r].kind)]
                ELSE NameAt(redis, req[r].kind, KeyOf(r))]_vars

\* events named bob, then ann, then one with an empty name: the record is
\* named ann
C23_Witness ==
  \E r \in Req :
    /\ Written(r) /\ nErrors = 0 /\ clock = 1
    /\ Len(pushed[EventsKeyOf(req[r].kind)]) = 3
    /\ pushed[EventsKeyOf(req[r].kind)][3][NameField(req[r].kind)] = "bob"
    /\ pushed[EventsKeyOf(req[r].kind)][2][NameField(req[r].kind)] = "ann"
    /\ pushed[EventsKeyOf(req[r].kind)][1][NameField(req[r].kind)] = ""
    /\ NameAt(redis, req[r].kind, KeyOf(r)) = "ann"

---------------------------------------------------------------------------
(* receivedAt                                                              *)

\* the i-th entry of the log of a stream, parsed
EntryAt(key, i) == JSONparse(ListAt(redis, key)[i], FieldsOf(key))

\* C24: every entry of both logs has a receivedAt, which is a value the
\* server clock has had (the clock of the ingestion), never the receivedAt
\* of the body the producer sent.
C24_ReceivedAtIsServers ==
  \A key \in ListKeys : \A i \in 1..Len(ListAt(redis, key)) :
    /\ "receivedAt" \in DOMAIN ListAt(redis, key)[i]
    /\ EntryAt(key, i).receivedAt \in 1..clock
    /\ EntryAt(key, i).receivedAt # ClientReceivedAt

\* both logs hold an event that was sent with a receivedAt (named ann, of
\* timestamp 2), stamped by the server
C24_Witness ==
  \A key \in ListKeys :
    \E i \in 1..Len(ListAt(redis, key)) :
      /\ EntryAt(key, i)[NameField(IF key = EVENTS_KEY THEN "log" ELSE "posts_log")] = "ann"
      /\ EntryAt(key, i).timestamp = 2
      /\ EntryAt(key, i).receivedAt = clock

---------------------------------------------------------------------------
(* Warmup actions that count nothing                                       *)

\* the submit in slot r is a warmup submit whose action is none of the six
\* of the delta table
Uncounted(r) == req[r].kind = "log" /\ req[r].event.action \notin DOMAIN WarmupTable

\* C25: requests being served one at a time, a warmup submit with a profile
\* id and a non-empty action that is none of the six counted ones is not
\* rejected, its event is appended to the log, and its counter write leaves
\* each of the six counters as it was (zero if there was no record) and
\* sets lastActivity to the timestamp of the event.
C25_OtherActionsCountNothing ==
  /\ [](\A r \in Req :
          (Uncounted(r) /\ Truthy(req[r].event.profileId) /\ Truthy(req[r].event.action)) =>
            /\ req[r].status # 400
            /\ req[r].pc \notin {"lpush"} =>
                 (nErrors = 0 => ListAt(redis, EVENTS_KEY)[1] = JSONstringify(req[r].event)))
  /\ [][\A r \in Req :
          (Uncounted(r) /\ req[r].pc = "set" /\ req'[r].status = 200) =>
            /\ KeyOf(r) \in DOMAIN redis'
            /\ \A c \in WarmupCounters :
                 redis'[KeyOf(r)][c] = IF KeyOf(r) \in DOMAIN redis THEN redis[KeyOf(r)][c] ELSE 0
            /\ JSONparse(redis'[KeyOf(r)], ProfileStatsFields).lastActivity
                 = req[r].event.timestamp]_vars

\* a session_end is the first event of its profile: it is in the log, the
\* record exists with six zeros and the timestamp of the event
C25_Witness ==
  \E r \in Req :
    /\ Written(r) /\ Uncounted(r) /\ req[r].event.action = "session_end"
    /\ pushed[EVENTS_KEY] = <<req[r].event>>
    /\ ListAt(redis, EVENTS_KEY) = <<JSONstringify(req[r].event)>>
    /\ \A c \in WarmupCounters : redis[KeyOf(r)][c] = 0
    /\ RecordOf(r).lastActivity = req[r].event.timestamp

---------------------------------------------------------------------------
(* Retention                                                               *)

\* the step is the counter write of a submit to the key k
WriteStep(k) ==
  \E r \in Req : IsSubmit(r) /\ req[r].pc = "set" /\ req'[r].status = 200 /\ KeyOf(r) = k

\* the step is the delete of a clear that enumerated the key k
ClearDeletes(k) ==
  \E r \in Req : IsClear(r) /\ req[r].pc = "delstats" /\ req'[r].pc = "delevents"
                 /\ k \in req[r].keys

\* C26: every counter write sets the deadline of its record to seven days
\* after the time of the write, whatever the deadline was; the deadline of a
\* record changes in no other step; a record that is in the store has a
\* deadline that has not come, and a record leaves the store only when time
\* reaches its deadline or when a clear deletes it.
C26_SevenDaysFromLastWrite ==
  /\ [](\A k \in StatsKeysOf(redis) : k \in DOMAIN expireAt /\ clock < expireAt[k])
  /\ [][\A k \in StatsKeysOf(redis) \cup StatsKeysOf(redis') :
          /\ WriteStep(k) =>
               /\ k \in DOMAIN redis' /\ k \in DOMAIN expireAt'
               /\ TodayOf(expireAt'[k] - clock) = 7
               /\ TodayOf(expireAt'[k] - clock - 1) = 6
          /\ (k \in DOMAIN redis /\ k \in DOMAIN redis' /\ expireAt'[k] # expireAt[k]) =>
               WriteStep(k)
          /\ (k \in DOMAIN redis /\ k \notin DOMAIN redis') =>
               (ClearDeletes(k) \/ (clock' > clock /\ expireAt[k] <= clock'))
          /\ (k \notin DOMAIN redis /\ k \in DOMAIN redis') => WriteStep(k)]_vars

\* a record written twice, the second time half a day after the first, has
\* left the store with no clear: seven days have passed since the second
\* write
C26_Witness ==
  /\ nClears = 0
  /\ \E k \in DOMAIN counted :
       /\ Len(counted[k]) = 2
       /\ k \notin DOMAIN redis
       /\ TodayOf(clock) = k[2] + 8

---------------------------------------------------------------------------
(* allForDate                                                              *)

\* the query in slot r has finished the loop of allForDate: req[r].stats is
\* the mapping it returns
LoopDone(r) ==
  /\ IsQuery(r) /\ req[r].status # 500
  /\ req[r].pc \in {"lrange", "join", "respond"}

\* the ids of the entries of a mapping, and of the records of a stream and
\* date in the store
IdsOf(mapping) == {mapping[i].id : i \in 1..Len(mapping)}
StoredIds(prefix, date) ==
  {k[3] : k \in {j \in DOMAIN redis : Len(j) = 3 /\ j[1] = prefix /\ j[2] = date}}

\* C27: requests being served one at a time, the mapping allForDate returns
\* has one entry for each id, every entry is of an enumerated key, and every
\* enumerated record that is still in the store is in the mapping as it is
\* stored; if no time has passed since the query started (nothing expired),
\* the ids of the mapping are exactly the ids that have a record of the
\* stream and date.  A fetch that finds its key gone adds no entry.
C27_AllForDate ==
  /\ [](\A r \in Req :
          LoopDone(r) =>
            LET prefix == StreamPrefix(req[r].kind)
                result == req[r].stats
            IN  /\ \A i, j \in 1..Len(result) : result[i].id = result[j].id => i = j
                /\ IdsOf(result) \subseteq {req[r].order[n][3] : n \in 1..Len(req[r].order)}
                /\ \A n \in 1..Len(req[r].order) :
                     req[r].order[n] \in DOMAIN redis =>
                       \E i \in 1..Len(result) :
                         /\ result[i].id = req[r].order[n][3]
                         /\ JSONstringify(result[i].stats) = redis[req[r].order[n]]
                /\ TodayOf(clock) = req[r].today =>
                     IdsOf(result) = StoredIds(prefix, req[r].today))
  /\ [][\A r \in Req :
          (IsQuery(r) /\ req[r].pc = "get" /\ req'[r].status # 500
           /\ req[r].order[req[r].next] \notin DOMAIN redis) =>
            req'[r].stats = req[r].stats]_vars

\* the one enumerated record has expired before its fetch: the mapping is
\* empty
C27_Witness ==
  \E r \in Req :
    /\ LoopDone(r) /\ Len(req[r].order) = 1
    /\ req[r].order[1] \notin DOMAIN redis
    /\ req[r].order[1] \in DOMAIN counted
    /\ req[r].stats = <<>>

---------------------------------------------------------------------------
(* Failures of a query                                                     *)

\* C28: when a backend read of a query fails the query answers 500, and the
\* body of every 500 response of a query is the error message of its route
\* and nothing else, whatever the query had read before the failure.
C28_NoPartialSnapshot ==
  /\ [](\A r \in Req :
          (IsQuery(r) /\ req[r].status = 500) =>
            /\ req[r].pc = "respond"
            /\ DOMAIN req[r].body = {"error"}
            /\ req[r].body.error = IF req[r].kind = "stats" THEN "Failed to fetch stats"
                                   ELSE "Failed to fetch posts data")
  /\ [][\A r \in Req :
          (IsQuery(r) /\ nErrors' # nErrors /\ req'[r] # req[r]) =>
            req'[r].status = 500]_vars

\* a query has failed after it had read a record: the response is the
\* message alone
C28_Witness ==
  \E r \in Req :
    /\ IsQuery(r) /\ req[r].pc = "respond" /\ req[r].status = 500
    /\ req[r].stats # <<>>
    /\ DOMAIN req[r].body = {"error"}

---------------------------------------------------------------------------
(* The polls of the dashboard page                                         *)

\* the response of the query in slot r reaches the page with this step
PollDone(r) == IsQuery(r) /\ req[r].pc = "respond" /\ req'[r].pc = "idle"

\* the snapshot of the page a query fills
DataOf(kind) == IF kind = "stats" THEN "warmupData" ELSE "postsData"

\* C29: a poll that fails (a response that is not a success, or no
\* response) sets the error banner and leaves both snapshots of the page as
\* they are; a poll that succeeds clears the banner and replaces the
\* snapshot of its stream with its response; no other step changes the
\* snapshots or clears the banner.
C29_BannerUntilSuccess ==
  [][/\ \A r \in Req :
          PollDone(r) =>
            IF req[r].status = 200
              THEN /\ page'.error = NoError
                   /\ page'[DataOf(req[r].kind)] = req[r].body
                   /\ \A f \in {"warmupData", "postsData"} \ {DataOf(req[r].kind)} :
                        page'[f] = page[f]
              ELSE /\ page'.error = "Connection lost"
                   /\ page'.warmupData = page.warmupData
                   /\ page'.postsData = page.postsData
     /\ (\A r \in Req : ~PollDone(r)) =>
          /\ page'.warmupData = page.warmupData
          /\ page'.postsData = page.postsData
          /\ page'.error \in {page.error, "Connection lost"}]_vars

\* a backend command has failed and the banner is set; the snapshot of an
\* earlier poll, with a profile in it, is on screen
C29_Witness ==
  /\ page.error = "Connection lost"
  /\ nErrors = 1
  /\ \A r \in Req : req[r].pc = "idle"
  /\ page.warmupData # Nil
  /\ page.warmupData.profiles # <<>>

---------------------------------------------------------------------------
(* The response of a clear                                                 *)

\* C30: a clear enumerates the counter records of its stream and date that
\* are in the store at that step; it goes on to the delete of the log only
\* when none of them is in the store any more; it answers success only in
\* the step that deletes the log, and the count of its response is the
\* number of the records it enumerated.
C30_ClearedCount ==
  /\ [](\A r \in Req :
          (IsClear(r) /\ req[r].status = 200) =>
            /\ req[r].pc = "respond"
            /\ req[r].body.success
            /\ req[r].body.cleared.statsKeys = Cardinality(req[r].keys))
  /\ [][\A r \in Req :
          /\ (IsClear(r) /\ req[r].pc = "keys" /\ req'[r].pc \in {"delstats", "delevents"}) =>
               req'[r].keys = {k \in DOMAIN redis :
                                 /\ Len(k) = 3 /\ k[1] = StreamPrefix(req[r].kind)
                                 /\ k[2] = req[r].today}
          /\ (IsClear(r) /\ req[r].pc # "delevents" /\ req'[r].pc = "delevents") =>
               req'[r].keys \cap DOMAIN redis' = {}
          /\ (IsClear(r) /\ req[r].status # 200 /\ req'[r].status = 200) =>
               /\ req[r].pc = "delevents"
               /\ StreamLog(req[r].kind) \notin DOMAIN redis']_vars

\* a clear has answered success with a count of 1
C30_Witness ==
  \E r \in Req :
    /\ IsClear(r) /\ req[r].pc = "respond" /\ req[r].status = 200
    /\ Cardinality(req[r].keys) = 1
    /\ req[r].body.cleared.statsKeys = 1
    /\ pushed[StreamLog(req[r].kind)] # <<>>
    /\ StreamLog(req[r].kind) \notin DOMAIN redis

---------------------------------------------------------------------------
(* The headers of the ingestion routes                                     *)

\* a request of an ingestion route: a preflight or a submit
IsIngestion(r) == req[r].kind \in {"log", "posts_log", "log_options", "posts_log_options"}

\* C31: every response of an ingestion route (the answer to a preflight, the
\* success, the rejection with 400 and the failure with 500) carries the
\* permissive cross-origin headers: any origin, the methods POST and
\* OPTIONS, the header Content-Type.
C31_CorsOnEveryResponse ==
  \A r \in Req :
    (IsIngestion(r) /\ req[r].pc = "respond") =>
      /\ req[r].status \in {200, 400, 500}
      /\ req[r].headers.Access_Control_Allow_Origin = "*"
      /\ req[r].headers.Access_Control_Allow_Methods = "POST, OPTIONS"
      /\ req[r].headers.Access_Control_Allow_Headers = "Content-Type"

\* a submit of the post stream has failed with 500 while the other slot
\* answers a preflight of the warmup route
C31_Witness ==
  \E r, q \in Req :
    /\ req[r].kind = "posts_log" /\ req[r].pc = "respond" /\ req[r].status = 500
    /\ req[r].headers = PostsLogCorsHeaders
    /\ req[q].kind = "log_options" /\ req[q].pc = "respond" /\ req[q].body = EmptyObject

---------------------------------------------------------------------------
(* Counters against the accepted events                                    *)

\* the counter of each counted action
PostTable ==
  [post_scheduled |-> "scheduled", post_published |-> "posted", post_failed |-> "failed"]

TableOf(prefix) == IF prefix = STATS_PREFIX THEN WarmupTable ELSE PostTable

\* how many events of an action the submits have counted under a record key
CountedOf(k, action) ==
  Cardinality({i \in 1..Len(Counted(k)) : Counted(k)[i] = action})

\* how many accepted events of an action and entity the server has received
\* on a day or before it
ReceivedBy(prefix, day, id, action) ==
  LET key == IF prefix = STATS_PREFIX THEN EVENTS_KEY ELSE POST_EVENTS_KEY
      kind == IF prefix = STATS_PREFIX THEN "log" ELSE "posts_log"
  IN  Cardinality({i \in 1..Len(pushed[key]) :
                     /\ IdOf(kind, pushed[key][i]) = id
                     /\ pushed[key][i].action = action
                     /\ TodayOf(pushed[key][i].receivedAt) <= day})

---------------------------------------------------------------------------
(* A clear between the read and the write of a submit                      *)

\* C33: a clear between the read and the write of a submit does not erase
\* the record for good.  The write of a submit stores, whether or not the
\* record is still there, the counts the submit read plus its own delta; the
\* delete of a clear removes the records the clear enumerated and no other,
\* so a record created after the enumeration stays; no other step of a clear
\* touches a record.
C33_ClearDoesNotErase ==
  [][/\ \A r \in Req :
          (IsSubmit(r) /\ req[r].pc = "set" /\ req'[r].status = 200) =>
            /\ KeyOf(r) \in DOMAIN redis'
            /\ Counters(PrefixOf(req[r].kind), redis'[KeyOf(r)])
                 = TableStep(PrefixOf(req[r].kind), ReadCounters(r), req[r].event.action)
     /\ \A r \in Req :
          (IsClear(r) /\ req'[r] # req[r]) =>
            /\ StatsKeysOf(redis') =
                 IF req[r].pc = "delstats" /\ req'[r].pc = "delevents"
                   THEN StatsKeysOf(redis) \ req[r].keys
                   ELSE StatsKeysOf(redis)
            /\ \A k \in StatsKeysOf(redis') : redis'[k] = redis[k]]_vars

\* no request is in flight; a clear has enumerated and deleted the record of
\* green, which counted one like; a submit that had read the record before
\* the delete has written after it, and the stored record counts two likes
C33_Witness ==
  /\ \A q \in Req : req[q].pc \in {"idle", "respond"}
  /\ \E c, r \in Req :
       /\ req[c].kind = "clear" /\ req[c].status = 200
       /\ req[r].kind = "log" /\ req[r].status = 200
       /\ KeyOf(r) \in req[c].keys
       /\ req[r].existing # Nil /\ req[r].existing.likes = 1
       /\ KeyOf(r) \in DOMAIN redis /\ redis[KeyOf(r)].likes = 2
       /\ getStatsForDate(req[c].today)[req[r].event.profileId].likes = 2

---------------------------------------------------------------------------
(* The records and the events they come from                               *)

\* the stored record of a key, as a reader parses it
StoredRecord(k) ==
  JSONparse(redis[k], IF k[1] = STATS_PREFIX THEN ProfileStatsFields ELSE PostStatsFields)

\* the accepted events of the entity of a record key, on the stream of the key
AcceptedFor(k) ==
  LET key == IF k[1] = STATS_PREFIX THEN EVENTS_KEY ELSE POST_EVENTS_KEY
      kind == IF k[1] = STATS_PREFIX THEN "log" ELSE "posts_log"
  IN  {pushed[key][i] : i \in {j \in 1..Len(pushed[key]) : IdOf(kind, pushed[key][j]) = k[3]}}

\* C34 as stated: a record is stored only for an entity with an accepted
\* event on its stream, and the lastActivity of every stored record is not
\* null and is the timestamp of one of the accepted events of the entity.
C34_LastActivityNeverNull ==
  \A k \in StatsKeysOf(redis) :
    /\ AcceptedFor(k) # {}
    /\ StoredRecord(k).lastActivity # Null
    /\ \E e \in AcceptedFor(k) : e.timestamp = StoredRecord(k).lastActivity

\* C34: a record is stored only for an entity with an accepted event on its
\* stream, and the lastActivity of every stored record is the timestamp of
\* one of the accepted events of the entity: not null when that event came
\* with a timestamp, null (absent from the stored record) when it came
\* without one.
C34_LastActivityOfAnEvent ==
  \A k \in StatsKeysOf(redis) :
    /\ AcceptedFor(k) # {}
    /\ \E e \in AcceptedFor(k) : e.timestamp = StoredRecord(k).lastActivity
    /\ ("lastActivity" \in DOMAIN redis[k]) = (StoredRecord(k).lastActivity # Null)

\* the record of green, written by an event that came with the timestamp 2,
\* has been written again by an event without a timestamp: it counts two
\* likes and has no lastActivity
C34_Witness ==
  \E k \in StatsKeysOf(redis) :
    /\ k[1] = STATS_PREFIX
    /\ redis[k].likes = 2
    /\ "lastActivity" \notin DOMAIN redis[k]
    /\ \E e \in AcceptedFor(k) : e.timestamp = 2

---------------------------------------------------------------------------
(* What a submit leaves alone                                              *)

\* the step is a step of the submit served by slot r, on the route of `kind`
SubmitStepOf(r, kind) ==
  /\ req'[r] # req[r]
  /\ req[r].kind = kind \/ (req[r].kind = "none" /\ req'[r].kind = kind)

\* the keys whose value or deadline the step changes
Differ(f, g) ==
  {k \in DOMAIN f \cup DOMAIN g :
     \/ (k \in DOMAIN f) # (k \in DOMAIN g)
     \/ k \in DOMAIN f /\ k \in DOMAIN g /\ f[k] # g[k]}

Touched == Differ(redis, redis') \cup Differ(expireAt, expireAt')

\* C35: a submit for an entity on a stream changes only the event log of
\* that stream and the counter record of that stream, of the date the submit
\* computed and of that entity.  Every step of a submit leaves every other
\* key as it was, value and deadline: the log and the records of the other
\* stream, the records of the other entities, the records of the entity for
\* other days.  The log changes in the push and the truncate only, the record
\* in the write only, and the date is the date of the server when the submit
\* computes it.
C35_SubmitFrame ==
  [][\A r \in Req : \A kind \in {"log", "posts_log"} :
       SubmitStepOf(r, kind) =>
         /\ Touched \subseteq
              CASE req[r].pc \in {"lpush", "ltrim"} -> {EventsKeyOf(kind)}
                [] req[r].pc = "set" ->
                     {<<PrefixOf(kind), req[r].today, IdOf(kind, req[r].event)>>}
                [] OTHER -> {}
         /\ (req[r].pc = "today" /\ req'[r].pc = "get") => req'[r].today = TodayOf(clock)
         /\ (req[r].pc \in {"get", "set"} /\ req'[r].kind = kind) =>
              req'[r].today = req[r].today]_vars

\* a submit of the warmup stream has written the record of its entity for
\* the second day; the record of that entity for the first day, a record of
\* the post stream and the post log are in the store
C35_Witness ==
  \E r \in Req :
    /\ req[r].kind = "log" /\ req[r].pc = "respond" /\ req[r].status = 200
    /\ req[r].today = 1
    /\ <<STATS_PREFIX, 1, req[r].event.profileId>> \in DOMAIN redis
    /\ <<STATS_PREFIX, 0, req[r].event.profileId>> \in DOMAIN redis
    /\ \E k \in StatsKeysOf(redis) : k[1] = POST_STATS_PREFIX
    /\ POST_EVENTS_KEY \in DOMAIN redis

---------------------------------------------------------------------------
(* The day of a counted event                                              *)

\* the submit of slot r has computed its date
Dated(r) ==
  /\ IsSubmit(r)
  /\ req[r].pc \in {"get", "set"} \/ (req[r].pc = "respond" /\ req[r].status = 200)

\* C36: the day under which an event is counted is the calendar date of the
\* server when the counter step of its submit runs, whatever the timestamp
\* of the event.  The counter step computes the date from the clock of the
\* server; the date is not before the day the event was received and not
\* after the day of the state; the read and the write use that date, and the
\* write counts the event under the record of that date and of no other.
C36_CountedUnderServerDate ==
  /\ [](\A r \in Req :
          Dated(r) => /\ TodayOf(req[r].event.receivedAt) <= req[r].today
                      /\ req[r].today <= TodayOf(clock))
  /\ [][\A r \in Req :
          /\ (IsSubmit(r) /\ req[r].pc = "today" /\ req'[r].pc = "get") =>
               req'[r].today = TodayOf(clock)
          /\ (Dated(r) /\ IsSubmit(r)') => req'[r].today = req[r].today
          /\ (IsSubmit(r) /\ req[r].pc = "set" /\ req'[r].status = 200) =>
               LET k == <<PrefixOf(req[r].kind), req[r].today, IdOf(req[r].kind, req[r].event)>>
               IN  /\ Differ(redis, redis') \subseteq {k}
                   /\ k \in DOMAIN redis'
                   /\ Differ(counted, counted') = {k}
                   /\ counted'[k] = Append(Counted(k), req[r].event.action)]_vars

\* an event of green whose timestamp lies on the second day has been counted
\* on the first day: the record of the first day holds it, and there is no
\* record of the second day
C36_Witness ==
  \E r \in Req :
    /\ req[r].kind = "log" /\ req[r].pc = "respond" /\ req[r].status = 200
    /\ req[r].event.timestamp = 2 /\ TodayOf(req[r].event.timestamp) = 1
    /\ req[r].today = 0
    /\ <<STATS_PREFIX, 0, req[r].event.profileId>> \in DOMAIN redis
    /\ redis[<<STATS_PREFIX, 0, req[r].event.profileId>>].lastActivity = 2
    /\ <<STATS_PREFIX, 1, req[r].event.profileId>> \notin DOMAIN redis

---------------------------------------------------------------------------
(* The date of a snapshot                                                  *)

\* C37: the date field of a today snapshot is the date key of the counter
\* records the snapshot contains (the date whose keys the query enumerated),
\* also when the calendar date of the server changes while the query runs.
C37_DateOfSnapshot ==
  \A r \in Req :
    (IsQuery(r) /\ Answered(r)) =>
      \A i \in 1..Len(EntitiesOf(r)) :
        /\ req[r].body.date = req[r].today
        /\ \E j \in 1..Len(req[r].order) :
             req[r].order[j] = <<StreamPrefix(req[r].kind), req[r].body.date, EntityId(r, i)>>
====
